---- MODULE Spec2Model ----
(***************************************************************************)
(* Model of the agent/edit core of the editor: the path guard, the file    *)
(* system handlers and the AI tool executor of electron/main.ts, and the   *)
(* pending-edit ledger of the renderer (chatStore.ts, MessageList.tsx).    *)
(*                                                                         *)
(* Strings are sequences of one-character strings, so that prefix tests,   *)
(* case folding and separator handling are computed as the code computes   *)
(* them.  Paths follow the POSIX flavour of Node's path module.            *)
(***************************************************************************)
EXTENDS Integers, Sequences, FiniteSets, TLC

VARIABLES
    workspacePath,          \* main.ts: root enforced by isWithinWorkspace (NoRoot = null)
    guardObs,               \* observation: the last direct call of isWithinWorkspace
    disk,                   \* the file system: resolved path -> Dir or file content
    lastFs,                 \* observation: what the last fs:* handler did on disk
    fsCalls,                \* number of fs:* requests handled so far
    rootPath,               \* renderer workspaceStore: root shown in the UI (NoRoot = null)
    currentWorkspacePath,   \* main.ts: root the AI tools resolve their paths against
    isLoading,              \* chatStore: an ai:sendMessage run is in progress
    now,                    \* Date.now() of the main process, in milliseconds
    fullText,               \* main.ts: proposal markers in the text of the running turn
    messages,               \* renderer: per model message, the proposal markers in its text
    pendingEdits,           \* chatStore.pendingEdits
    calls,                  \* ai:applyEdit invocations in flight
    applyLog,               \* observation: every ai:applyEdit that finished, in order
    toolLog,                \* observation: what the last tool invocation did
    editObs,                \* observation: the last run of the edit loop of edit_file
    decodeObs,              \* observation: the last texts decoded by parseMessageContent
    sessionMessages,        \* chatStore: the messages of the active session, with their text
    sendRun,                \* main.ts: the locals of the running ai:sendMessage handler
    request,                \* observation: the messages of the last request to the provider
    chunkListeners,         \* preload: ids of the messages the ai:chunk listeners write to
    tree,                   \* workspaceStore: the nodes shown, children attached where loaded
    expandedFolders,        \* workspaceStore: the paths expanded, in the order they were added
    selectedPath,           \* workspaceStore: the selection (NoRoot = null)
    editingNodeId,          \* workspaceStore: id of the node in edit mode (NoRoot = null)
    isCreating,             \* workspaceStore: a creation is in progress
    tasks,                  \* workspaceStore: the async actions waiting for an answer of main
    refreshTimeout,         \* workspaceStore: the debounce timer of handleFsChange
    clock,                  \* time of the renderer, in milliseconds
    treeObs                 \* observation: notifications received and refreshes asked for

fsVars == <<workspacePath, disk, lastFs, fsCalls, rootPath>>
textVars == <<editObs, decodeObs, sessionMessages, sendRun, request, chunkListeners>>
chatVars == <<currentWorkspacePath, isLoading, now, fullText, messages, pendingEdits,
              calls, applyLog, toolLog, textVars>>
treeVars == <<tree, expandedFolders, selectedPath, editingNodeId, isCreating, tasks,
              refreshTimeout, clock, treeObs>>
vars == <<workspacePath, guardObs, disk, lastFs, fsCalls, rootPath,
          currentWorkspacePath, isLoading, now, fullText, messages, pendingEdits,
          calls, applyLog, toolLog, editObs, decodeObs, sessionMessages, sendRun, request,
          chunkListeners, tree, expandedFolders, selectedPath, editingNodeId, isCreating,
          tasks, refreshTimeout, clock, treeObs>>

\* ------------------------------------------------------------------ bounds

\* Longest path (in segments) drawn as an input of the path guard.
MaxSegs == 2

\* Number of fs:* requests the renderer issues in one run of the model.
MaxFsCalls == 3

\* Number of edit proposals made in one run of the model.
MaxEdits == 2

\* Number of messages sent to the model in one run of the model.
MaxTurns == 1

\* Last millisecond the clock of the model reaches.
MaxTime == 1

\* Number of folder dialogs in one run of the edit protocol.
MaxUiCalls == 1

\* Number of clicks on Accept in one run of the model.
MaxAccepts == 2

\* Longest list of edits handed to one edit_file.
MaxEditList == 2

\* Most segments in a decoded text, and in the suffix that arrives after it.
MaxTextSegs == 2

\* Most tool_use blocks in one response of the provider.
MaxBlocks == 2

\* Most responses with tool_use blocks in one run of ai:sendMessage.
MaxToolRounds == 1

\* Number of messages the user sends in one run of the tool loop model.
MaxLoopTurns == 2

\* Deepest path (in segments) the modelled disk may come to hold.
MaxDepth == 2

\* Calls of store actions by the user interface.
MaxTreeOps == 4

\* External change notifications.
MaxNotifs == 2

\* Calls of the user interface in the tree mutation specification.
MaxMutateOps == 2

\* ------------------------------------------------------------ string helpers

\* workspacePath = null; the code tests it with !workspacePath, which the empty
\* string satisfies as well.
NoRoot == <<>>
None == "none"

\* String.prototype.toLowerCase on the model's alphabet.
LowerChar(c) == IF c = "W" THEN "w" ELSE c

toLowerCase(s) == [i \in 1..Len(s) |-> LowerChar(s[i])]

\* .replace(/\\/g, '/')
replaceBackslashes(s) == [i \in 1..Len(s) |-> IF s[i] = "\\" THEN "/" ELSE s[i]]

\* String.prototype.startsWith
startsWith(s, pre) == Len(pre) <= Len(s) /\ SubSeq(s, 1, Len(pre)) = pre

RECURSIVE SplitAcc(_, _, _)
SplitAcc(s, i, cur) ==
    IF i > Len(s) THEN <<cur>>
    ELSE IF s[i] = "/" THEN <<cur>> \o SplitAcc(s, i + 1, <<>>)
    ELSE SplitAcc(s, i + 1, Append(cur, s[i]))

\* s.split('/')
split(s) == SplitAcc(s, 1, <<>>)

RECURSIVE JoinSegs(_)
JoinSegs(segs) ==
    IF Len(segs) = 0 THEN <<>>
    ELSE IF Len(segs) = 1 THEN segs[1]
    ELSE segs[1] \o <<"/">> \o JoinSegs(Tail(segs))

DotDot == <<".", ".">>

RECURSIVE NormAcc(_, _, _, _)
NormAcc(segs, i, out, allowAboveRoot) ==
    IF i > Len(segs) THEN out
    ELSE IF segs[i] = <<>> \/ segs[i] = <<".">>
        THEN NormAcc(segs, i + 1, out, allowAboveRoot)
    ELSE IF segs[i] = DotDot
        THEN IF Len(out) > 0 /\ out[Len(out)] # DotDot
                THEN NormAcc(segs, i + 1, SubSeq(out, 1, Len(out) - 1), allowAboveRoot)
             ELSE IF allowAboveRoot
                THEN NormAcc(segs, i + 1, Append(out, DotDot), allowAboveRoot)
             ELSE NormAcc(segs, i + 1, out, allowAboveRoot)
    ELSE NormAcc(segs, i + 1, Append(out, segs[i]), allowAboveRoot)

\* Node's normalizeString: the segments left after resolving '.', '..' and
\* empty segments.
normalizeString(s, allowAboveRoot) == NormAcc(split(s), 1, <<>>, allowAboveRoot)

isAbsolute(s) == Len(s) > 0 /\ s[1] = "/"

\* process.cwd() of the main process.
Cwd == <<"/">>

\* path.resolve(p): absolute, no '.', '..', doubled or trailing separators.
resolve(p) ==
    LET full == IF isAbsolute(p) THEN p ELSE Cwd \o <<"/">> \o p
    IN  <<"/">> \o JoinSegs(normalizeString(full, FALSE))

\* ------------------------------------------------------------ path module

\* path.normalize
normalize(p) ==
    IF Len(p) = 0 THEN <<".">>
    ELSE LET abs == isAbsolute(p)
             trailingSep == p[Len(p)] = "/"
             body == JoinSegs(normalizeString(p, ~abs))
         IN  IF Len(body) = 0
                THEN IF abs THEN <<"/">>
                     ELSE IF trailingSep THEN <<".", "/">> ELSE <<".">>
             ELSE (IF abs THEN <<"/">> ELSE <<>>) \o body
                      \o (IF trailingSep THEN <<"/">> ELSE <<>>)

\* path.join(a, b): empty arguments are skipped, the rest joined and normalized.
join(a, b) ==
    IF Len(a) = 0 /\ Len(b) = 0 THEN <<".">>
    ELSE IF Len(a) = 0 THEN normalize(b)
    ELSE IF Len(b) = 0 THEN normalize(a)
    ELSE normalize(a \o <<"/">> \o b)

RECURSIVE DirnameEnd(_, _, _)
\* Scan of path.dirname from the right: the index (0-based, as in the source)
\* of the separator that ends the directory part, or -1.
DirnameEnd(p, i, matchedSlash) ==
    IF i < 2 THEN -1
    ELSE IF p[i] = "/"
        THEN IF ~matchedSlash THEN i - 1 ELSE DirnameEnd(p, i - 1, matchedSlash)
    ELSE DirnameEnd(p, i - 1, FALSE)

\* path.dirname
dirname(p) ==
    IF Len(p) = 0 THEN <<".">>
    ELSE LET end == DirnameEnd(p, Len(p), TRUE)
         IN  IF end = -1 THEN (IF isAbsolute(p) THEN <<"/">> ELSE <<".">>)
             ELSE IF isAbsolute(p) /\ end = 1 THEN <<"/", "/">>
             ELSE SubSeq(p, 1, end)

\* path.basename: the last non-empty segment.
basename(p) ==
    LET segs == SelectSeq(split(p), LAMBDA g : g # <<>>)
    IN  IF Len(segs) = 0 THEN <<>> ELSE segs[Len(segs)]

\* ------------------------------------------------------------- file system

Dir == [kind |-> "dir", content |-> <<>>]
File(content) == [kind |-> "file", content |-> content]

\* q is rp or lies beneath it (both resolved): containment by whole segments.
IsUnder(q, rp) ==
    \/ q = rp
    \/ rp = <<"/">>
    \/ startsWith(q, rp \o <<"/">>)

Exists(d, rp) == rp \in DOMAIN d
IsDir(d, rp) == rp \in DOMAIN d /\ d[rp].kind = "dir"
IsFile(d, rp) == rp \in DOMAIN d /\ d[rp].kind = "file"

\* Resolved path and all its ancestors.
RECURSIVE Ancestors(_)
Ancestors(rp) ==
    IF rp = <<"/">> THEN {rp} ELSE {rp} \cup Ancestors(resolve(dirname(rp)))

Children(d, rp) == {q \in DOMAIN d : q # rp /\ resolve(dirname(q)) = rp}

\* fs.readFile succeeds
CanReadFile(d, p) == IsFile(d, resolve(p))

\* fs.readdir succeeds
CanReaddir(d, p) == IsDir(d, resolve(p))

\* fs.writeFile succeeds: the parent is a directory and the target is no directory.
CanWriteFile(d, p) ==
    LET rp == resolve(p)
    IN  /\ rp # <<"/">>
        /\ IsDir(d, resolve(dirname(rp)))
        /\ ~IsDir(d, rp)

WriteFileOn(d, p, content) ==
    LET rp == resolve(p)
    IN  [q \in DOMAIN d \cup {rp} |-> IF q = rp THEN File(content) ELSE d[q]]

\* fs.mkdir(p, {recursive: true}) succeeds: no existing ancestor-or-self is a file.
CanMkdirP(d, p) == \A q \in Ancestors(resolve(p)) : ~IsFile(d, q)

MkdirPOn(d, p) ==
    [q \in DOMAIN d \cup Ancestors(resolve(p)) |-> IF q \in DOMAIN d THEN d[q] ELSE Dir]

\* fs.rename succeeds
CanRename(d, old, new) ==
    LET ro == resolve(old)
        rn == resolve(new)
    IN  /\ Exists(d, ro)
        /\ ro # <<"/">>
        /\ IsDir(d, resolve(dirname(rn)))
        /\ \/ ro = rn
           \/ /\ ~IsUnder(rn, ro)
              /\ \/ ~Exists(d, rn)
                 \/ IsFile(d, ro) /\ IsFile(d, rn)
                 \/ IsDir(d, ro) /\ IsDir(d, rn) /\ Children(d, rn) = {}

\* The path q of the subtree at ro, moved to rn.
Rebase(q, ro, rn) == rn \o SubSeq(q, Len(ro) + 1, Len(q))

RenameOn(d, old, new) ==
    LET ro == resolve(old)
        rn == resolve(new)
        moved == {q \in DOMAIN d : IsUnder(q, ro)}
        kept == {q \in DOMAIN d : ~IsUnder(q, ro) /\ q # rn}
    IN  IF ro = rn THEN d
        ELSE [q \in kept \cup {Rebase(m, ro, rn) : m \in moved} |->
                IF q \in kept THEN d[q]
                ELSE d[CHOOSE m \in moved : Rebase(m, ro, rn) = q]]

\* fs.rm(p, {recursive: true, force: true}): removes the subtree, never fails
\* on a missing path.
RmOn(d, p) ==
    LET rp == resolve(p)
    IN  [q \in {x \in DOMAIN d : ~IsUnder(x, rp) \/ x = <<"/">>} |-> d[q]]

\* Paths of d that differ between d and e.
Changed(d, e) ==
    {q \in DOMAIN d \cup DOMAIN e :
        ~(q \in DOMAIN d /\ q \in DOMAIN e /\ d[q] = e[q])}

\* The disk stays within the modelled depth.
Fits(d) == \A q \in DOMAIN d : Len(normalizeString(q, FALSE)) <= MaxDepth

InitDisk ==
    (<<"/">> :> Dir)
        @@ (<<"/", "w">> :> Dir)
        @@ (<<"/", "w", "/", "f">> :> File(<<"a">>))
        @@ (<<"/", "w", "x">> :> Dir)
        @@ (<<"/", "w", "x", "/", "f">> :> File(<<"b">>))

NoToolCall ==
    [tool |-> None, fullPath |-> <<>>, read |-> {}, result |-> None, root |-> NoRoot]

NoFsOp == [op |-> None, denied |-> FALSE, touched |-> {}, root |-> NoRoot]

\* ------------------------------------------------------------- path guard

\* isWithinWorkspace with the case folding of the target left out.
isWithinWorkspaceNoFold(root, targetPath) ==
    IF root = NoRoot THEN FALSE
    ELSE LET normalizedTarget == replaceBackslashes(resolve(targetPath))
             normalizedWorkspace == replaceBackslashes(toLowerCase(resolve(root)))
         IN  startsWith(normalizedTarget, normalizedWorkspace)

\* main.ts isWithinWorkspace, with the root passed explicitly.
isWithinWorkspaceOf(root, targetPath) ==
    IF root = NoRoot THEN FALSE
    ELSE LET normalizedTarget == replaceBackslashes(toLowerCase(resolve(targetPath)))
             normalizedWorkspace == replaceBackslashes(toLowerCase(resolve(root)))
         IN  startsWith(normalizedTarget, normalizedWorkspace)

isWithinWorkspace(targetPath) == isWithinWorkspaceOf(workspacePath, targetPath)

\* The chat side before the first message.
\* Nothing edited or decoded yet, an empty session, no run of ai:sendMessage.
NoEditRun == [ran |-> FALSE, content |-> <<>>, edits |-> <<>>, newContent |-> <<>>,
              editCount |-> 0]

NoDecode == [ran |-> FALSE, text |-> <<>>, suffix |-> <<>>,
             first |-> [cleanText |-> <<>>, edits |-> <<>>, toolStatuses |-> <<>>],
             second |-> [cleanText |-> <<>>, edits |-> <<>>, toolStatuses |-> <<>>]]

NoRun == [pc |-> "idle", apiMessages |-> <<>>, fullText |-> <<>>, blocks |-> <<>>,
          assistantContent |-> [text |-> <<>>, toolUses |-> <<>>], toolResults |-> <<>>,
          rounds |-> 0, stop |-> None, msgId |-> <<>>, received |-> <<>>]

\* The message every session starts with.
Welcome == [id |-> <<"welcome">>, role |-> "model", text |-> <<"Hi there.">>, isError |-> FALSE]

InitText ==
    /\ editObs = NoEditRun
    /\ decodeObs = NoDecode
    /\ sessionMessages = <<Welcome>>
    /\ chunkListeners = {}
    /\ sendRun = NoRun
    /\ request = <<>>

\* No timer is set.
NoTimer == [set |-> FALSE, due |-> 0, changedPath |-> <<>>]

\* Nothing observed yet.
NoTreeObs == [notified |-> <<>>, refreshed |-> <<>>, toggled |-> <<>>, ops |-> 0]

\* The workspace store as it is created.
InitStore ==
    /\ tree = <<>>
    /\ expandedFolders = <<>>
    /\ selectedPath = NoRoot
    /\ editingNodeId = NoRoot
    /\ isCreating = FALSE
    /\ tasks = <<>>
    /\ refreshTimeout = NoTimer
    /\ clock = 0
    /\ treeObs = NoTreeObs

InitChat ==
    /\ rootPath = NoRoot
    /\ currentWorkspacePath = NoRoot
    /\ isLoading = FALSE
    /\ now = 0
    /\ fullText = <<>>
    /\ messages = <<>>
    /\ pendingEdits = <<>>
    /\ calls = <<>>
    /\ applyLog = <<>>
    /\ toolLog = NoToolCall
    /\ InitText
    /\ InitStore

\* ------------------------------------------------------------ guard inputs

SegNames == {<<"w">>, <<"w", "x">>, <<"W">>, <<"f">>, DotDot}

RECURSIVE SegSeqs(_)
SegSeqs(n) ==
    IF n = 0 THEN {<<>>}
    ELSE LET shorter == SegSeqs(n - 1)
         IN  shorter \cup {Append(q, g) : q \in {r \in shorter : Len(r) = n - 1}, g \in SegNames}

\* Absolute and relative paths of up to MaxSegs segments.
GuardPaths ==
    {<<"/">> \o JoinSegs(q) : q \in SegSeqs(MaxSegs)}
        \cup {JoinSegs(q) : q \in SegSeqs(MaxSegs) \ {<<>>}}

GuardRoots ==
    {NoRoot, <<"/", "w">>, <<"/", "w", "x">>, <<"/", "W">>, <<"/", "w", "/", "f">>, <<"/">>}

\* ------------------------------------------------------ guard specification

InitGuard ==
    /\ workspacePath \in GuardRoots
    /\ guardObs = [checked |-> FALSE, arg |-> <<>>, res |-> FALSE]
    /\ disk = InitDisk
    /\ lastFs = NoFsOp
    /\ fsCalls = 0
    /\ InitChat

\* One call of isWithinWorkspace.
CheckPath(p) ==
    /\ guardObs' = [checked |-> TRUE, arg |-> p, res |-> isWithinWorkspace(p)]
    /\ UNCHANGED <<workspacePath, disk, lastFs, fsCalls, rootPath>>
    /\ UNCHANGED chatVars
    /\ UNCHANGED treeVars

NextGuard == \E p \in GuardPaths : CheckPath(p)

SpecGuard == InitGuard /\ [][NextGuard]_vars

\* ------------------------------------------------------- fs:* IPC handlers

\* What a handler did: the resolved paths it read, created, removed or wrote,
\* whether it threw 'Access denied', and the root in force.
FsOp(op, denied, touched) ==
    [op |-> op, denied |-> denied, touched |-> touched, root |-> workspacePath]

\* One more request handled, within the bound of the model.
Counted ==
    /\ fsCalls < MaxFsCalls
    /\ fsCalls' = fsCalls + 1

Denied(op) ==
    /\ lastFs' = FsOp(op, TRUE, {})
    /\ UNCHANGED <<workspacePath, disk>>

\* The store-kept root at startup: null or resolve(storedPath).
StoredRoots == {NoRoot, <<"/", "w">>}

\* Directories the folder dialog can return.
DialogDirs(d) == {q \in DOMAIN d : IsDir(d, q) /\ q # <<"/">>}

\* ipcMain.handle('fs:openFolder'), a folder chosen.
OpenFolder(dir) ==
    /\ dir \in DialogDirs(disk)
    /\ workspacePath' = dir
    /\ rootPath' = dir
    /\ lastFs' = [op |-> "openFolder", denied |-> FALSE, touched |-> {dir}, root |-> dir]
    /\ Counted
    /\ UNCHANGED <<disk, guardObs>>
    /\ UNCHANGED chatVars
    /\ UNCHANGED treeVars

\* ipcMain.handle('fs:getLastWorkspace')
GetLastWorkspace ==
    /\ workspacePath # NoRoot
    /\ IF Exists(disk, resolve(workspacePath))
          THEN /\ lastFs' = FsOp("getLastWorkspace", FALSE, {resolve(workspacePath)})
               /\ rootPath' = workspacePath
               /\ UNCHANGED workspacePath
          ELSE /\ workspacePath' = NoRoot
               /\ UNCHANGED rootPath
               /\ lastFs' = [op |-> "getLastWorkspace", denied |-> FALSE,
                             touched |-> {}, root |-> NoRoot]
    /\ Counted
    /\ UNCHANGED <<disk, guardObs>>
    /\ UNCHANGED chatVars
    /\ UNCHANGED treeVars

\* ipcMain.handle('fs:readDir'): readDirSafe swallows a failing readdir.
ReadDir(dirPath) ==
    /\ IF ~isWithinWorkspace(dirPath) THEN Denied("readDir")
       ELSE /\ lastFs' = FsOp("readDir", FALSE,
                              IF CanReaddir(disk, dirPath) THEN {resolve(dirPath)} ELSE {})
            /\ UNCHANGED <<workspacePath, disk>>
    /\ Counted
    /\ UNCHANGED <<guardObs, rootPath>>
    /\ UNCHANGED chatVars
    /\ UNCHANGED treeVars

\* ipcMain.handle('fs:createFile')
CreateFile(parentPath, fileName) ==
    LET filePath == join(parentPath, fileName)
    IN  /\ IF ~isWithinWorkspace(filePath) THEN Denied("createFile")
           ELSE IF CanWriteFile(disk, filePath)
                THEN /\ disk' = WriteFileOn(disk, filePath, <<>>)
                     /\ lastFs' = FsOp("createFile", FALSE, {resolve(filePath)})
                     /\ UNCHANGED workspacePath
                ELSE /\ lastFs' = FsOp("createFile", FALSE, {})
                     /\ UNCHANGED <<workspacePath, disk>>
        /\ Counted
    /\ UNCHANGED <<guardObs, rootPath>>
    /\ UNCHANGED chatVars
    /\ UNCHANGED treeVars

\* ipcMain.handle('fs:createFolder')
CreateFolder(parentPath, folderName) ==
    LET folderPath == join(parentPath, folderName)
    IN  /\ Fits(MkdirPOn(disk, folderPath))
        /\ IF ~isWithinWorkspace(folderPath) THEN Denied("createFolder")
           ELSE IF CanMkdirP(disk, folderPath)
                THEN /\ disk' = MkdirPOn(disk, folderPath)
                     /\ lastFs' = FsOp("createFolder", FALSE,
                                       Changed(disk, MkdirPOn(disk, folderPath)))
                     /\ UNCHANGED workspacePath
                ELSE /\ lastFs' = FsOp("createFolder", FALSE, {})
                     /\ UNCHANGED <<workspacePath, disk>>
        /\ Counted
    /\ UNCHANGED <<guardObs, rootPath>>
    /\ UNCHANGED chatVars
    /\ UNCHANGED treeVars

\* ipcMain.handle('fs:rename'): only oldPath is checked.
Rename(oldPath, newName) ==
    LET newPath == join(dirname(oldPath), newName)
    IN  /\ Fits(RenameOn(disk, oldPath, newPath))
        /\ IF ~isWithinWorkspace(oldPath) THEN Denied("rename")
           ELSE IF CanRename(disk, oldPath, newPath)
                THEN /\ disk' = RenameOn(disk, oldPath, newPath)
                     /\ lastFs' = FsOp("rename", FALSE,
                                       Changed(disk, RenameOn(disk, oldPath, newPath)))
                     /\ UNCHANGED workspacePath
                ELSE /\ lastFs' = FsOp("rename", FALSE, {})
                     /\ UNCHANGED <<workspacePath, disk>>
        /\ Counted
    /\ UNCHANGED <<guardObs, rootPath>>
    /\ UNCHANGED chatVars
    /\ UNCHANGED treeVars

\* ipcMain.handle('fs:delete')
Delete(targetPath) ==
    /\ IF ~isWithinWorkspace(targetPath) THEN Denied("delete")
       ELSE /\ disk' = RmOn(disk, targetPath)
            /\ lastFs' = FsOp("delete", FALSE, Changed(disk, RmOn(disk, targetPath)))
            /\ UNCHANGED workspacePath
    /\ Counted
    /\ UNCHANGED <<guardObs, rootPath>>
    /\ UNCHANGED chatVars
    /\ UNCHANGED treeVars

\* ipcMain.handle('fs:move')
Move(sourcePath, destFolder) ==
    LET fileName == basename(sourcePath)
        destPath == join(destFolder, fileName)
    IN  /\ Fits(RenameOn(disk, sourcePath, destPath))
        /\ IF ~isWithinWorkspace(sourcePath) \/ ~isWithinWorkspace(destFolder)
              THEN Denied("move")
           ELSE IF CanRename(disk, sourcePath, destPath)
                THEN /\ disk' = RenameOn(disk, sourcePath, destPath)
                     /\ lastFs' = FsOp("move", FALSE,
                                       Changed(disk, RenameOn(disk, sourcePath, destPath)))
                     /\ UNCHANGED workspacePath
                ELSE /\ lastFs' = FsOp("move", FALSE, {})
                     /\ UNCHANGED <<workspacePath, disk>>
        /\ Counted
    /\ UNCHANGED <<guardObs, rootPath>>
    /\ UNCHANGED chatVars
    /\ UNCHANGED treeVars

\* ipcMain.handle('fs:readFile'): fs.stat, then fs.readFile.  No content of the
\* model comes near the 10 MB limit.
ReadFile(filePath) ==
    /\ IF ~isWithinWorkspace(filePath) THEN Denied("readFile")
       ELSE /\ lastFs' = FsOp("readFile", FALSE,
                              IF Exists(disk, resolve(filePath))
                                 THEN {resolve(filePath)} ELSE {})
            /\ UNCHANGED <<workspacePath, disk>>
    /\ Counted
    /\ UNCHANGED <<guardObs, rootPath>>
    /\ UNCHANGED chatVars
    /\ UNCHANGED treeVars

\* ipcMain.handle('fs:writeFile')
WriteFile(filePath, content) ==
    /\ IF ~isWithinWorkspace(filePath) THEN Denied("writeFile")
       ELSE IF CanWriteFile(disk, filePath)
            THEN /\ disk' = WriteFileOn(disk, filePath, content)
                 /\ lastFs' = FsOp("writeFile", FALSE, {resolve(filePath)})
                 /\ UNCHANGED workspacePath
            ELSE /\ lastFs' = FsOp("writeFile", FALSE, {})
                 /\ UNCHANGED <<workspacePath, disk>>
    /\ Counted
    /\ UNCHANGED <<guardObs, rootPath>>
    /\ UNCHANGED chatVars
    /\ UNCHANGED treeVars

\* Paths and names the renderer sends to the fs:* handlers.
UiPaths == {<<"/", "w">>, <<"/", "w", "/", "f">>, <<"/", "w", "x", "/", "f">>}

UiNames == {<<"g">>, <<".", ".", "/", "g">>}

UiContents == {<<"c">>}

InitFs ==
    /\ workspacePath \in StoredRoots
    /\ guardObs = [checked |-> FALSE, arg |-> <<>>, res |-> FALSE]
    /\ disk = InitDisk
    /\ lastFs = NoFsOp
    /\ fsCalls = 0
    /\ InitChat

NextFs ==
    \/ \E dir \in DOMAIN disk : OpenFolder(dir)
    \/ GetLastWorkspace
    \/ \E p \in UiPaths : ReadDir(p)
    \/ \E p \in UiPaths, n \in UiNames : CreateFile(p, n)
    \/ \E p \in UiPaths, n \in UiNames : CreateFolder(p, n)
    \/ \E p \in UiPaths, n \in UiNames : Rename(p, n)
    \/ \E p \in UiPaths : Delete(p)
    \/ \E p \in UiPaths, q \in UiPaths : Move(p, q)
    \/ \E p \in UiPaths : ReadFile(p)
    \/ \E p \in UiPaths, c \in UiContents : WriteFile(p, c)

SpecFs == InitFs /\ [][NextFs]_vars

\* ------------------------------------------------------------ AI tools

\* Smallest index at which sub occurs in s, 0 if none (String.indexOf + 1).
IndexOf(s, sub) ==
    LET hits == {i \in 1..(Len(s) - Len(sub) + 1) : SubSeq(s, i, i + Len(sub) - 1) = sub}
    IN  IF hits = {} THEN 0 ELSE CHOOSE i \in hits : \A j \in hits : i <= j

\* String.prototype.includes
includes(s, sub) == IndexOf(s, sub) > 0

\* The backtick and the apostrophe as characters of the model's alphabet.
Backtick == "<backtick>"
Apostrophe == "<apostrophe>"

RECURSIVE Expand(_, _, _, _, _)
\* The replacement text of String.replace with a string pattern: $$ is a
\* dollar, $& the match, $ with a backtick the text before the match, $ with
\* an apostrophe the text after it.
Expand(new, i, matched, before, after) ==
    IF i > Len(new) THEN <<>>
    ELSE IF new[i] = "$" /\ i < Len(new) /\ new[i + 1] \in {"$", "&", Backtick, Apostrophe}
        THEN (CASE new[i + 1] = "$" -> <<"$">>
                [] new[i + 1] = "&" -> matched
                [] new[i + 1] = Backtick -> before
                [] OTHER -> after)
                 \o Expand(new, i + 2, matched, before, after)
    ELSE <<new[i]>> \o Expand(new, i + 1, matched, before, after)

\* s.replace(old, new) with strings: the first occurrence only.
replace(s, old, new) ==
    LET at == IndexOf(s, old)
        before == SubSeq(s, 1, at - 1)
        after == SubSeq(s, at + Len(old), Len(s))
    IN  IF at = 0 THEN s
        ELSE before \o Expand(new, 1, old, before, after) \o after

RECURSIVE ApplyEdits(_, _, _)
\* The loop of edit_file over its edits: the running content and the count
\* of edits that matched.
ApplyEdits(edits, newContent, editCount) ==
    IF edits = <<>> THEN [newContent |-> newContent, editCount |-> editCount]
    ELSE IF includes(newContent, Head(edits).old_text)
        THEN ApplyEdits(Tail(edits),
                        replace(newContent, Head(edits).old_text, Head(edits).new_text),
                        editCount + 1)
    ELSE ApplyEdits(Tail(edits), newContent, editCount)

\* The path a tool works on: joined to the root of the tools when there is one.
ToolFullPath(filePath) ==
    IF currentWorkspacePath # NoRoot THEN join(currentWorkspacePath, filePath)
    ELSE filePath

\* A proposal that carries no baseline.
ProposedEditNoBaseline(type, fullPath, filePath, originalContent, newContent) ==
    [id |-> now, type |-> type, path |-> fullPath, relativePath |-> filePath,
     originalContent |-> <<>>, newContent |-> newContent]

\* The [DIFF_BLOCK] payload of a proposal.
ProposedEdit(type, fullPath, filePath, originalContent, newContent) ==
    [id |-> now, type |-> type, path |-> fullPath, relativePath |-> filePath,
     originalContent |-> originalContent, newContent |-> newContent]

ToolCall(tool, fullPath, read, result) ==
    [tool |-> tool, fullPath |-> fullPath, read |-> read, result |-> result,
     root |-> workspacePath]

RECURSIVE Flatten(_)
Flatten(seqs) == IF seqs = <<>> THEN <<>> ELSE Head(seqs) \o Flatten(Tail(seqs))

\* Proposals already made in the whole run of the model: those of earlier
\* messages and those of the running turn.
Proposed ==
    IF messages = <<>> THEN 0
    ELSE Len(Flatten(SubSeq(messages, 1, Len(messages) - 1))) + Len(fullText)

\* executeAITool case 'read_file'
ReadFileTool(filePath) ==
    LET fullPath == ToolFullPath(filePath)
    IN  /\ toolLog' = IF CanReadFile(disk, fullPath)
                         THEN ToolCall("read_file", fullPath, {resolve(fullPath)}, "content")
                         ELSE ToolCall("read_file", fullPath, {}, "error")
        /\ UNCHANGED <<disk, fullText>>

\* executeAITool case 'list_directory'
ListDirectoryTool(dirPath) ==
    LET fullPath == IF currentWorkspacePath # NoRoot
                       THEN join(currentWorkspacePath, dirPath)
                       ELSE IF dirPath = <<>> THEN <<".">> ELSE dirPath
    IN  /\ toolLog' = IF CanReaddir(disk, fullPath)
                         THEN ToolCall("list_directory", fullPath, {resolve(fullPath)}, "listing")
                         ELSE ToolCall("list_directory", fullPath, {}, "error")
        /\ UNCHANGED <<disk, fullText>>

\* A write_file that writes the file itself instead of only proposing.
WriteFileToolWrites(filePath, newContent) ==
    LET fullPath == ToolFullPath(filePath)
    IN  /\ CanWriteFile(disk, fullPath)
        /\ disk' = WriteFileOn(disk, fullPath, newContent)
        /\ toolLog' = ToolCall("write_file", fullPath, {}, "proposal")
        /\ UNCHANGED fullText

\* executeAITool case 'write_file': the marker is appended to the turn's text
\* by the tool loop.
WriteFileTool(filePath, newContent) ==
    LET fullPath == ToolFullPath(filePath)
        readable == CanReadFile(disk, fullPath)
        originalContent == IF readable THEN disk[resolve(fullPath)].content ELSE <<>>
    IN  /\ fullText' = Append(fullText,
                ProposedEdit("write", fullPath, filePath, originalContent, newContent))
        /\ toolLog' = ToolCall("write_file", fullPath,
                               IF readable THEN {resolve(fullPath)} ELSE {}, "proposal")
        /\ UNCHANGED disk

\* An edit_file that proposes whether or not an edit matched.
EditFileToolAlwaysProposes(filePath, edits) ==
    LET fullPath == ToolFullPath(filePath)
        originalContent == disk[resolve(fullPath)].content
        applied == ApplyEdits(edits, originalContent, 0)
    IN  /\ CanReadFile(disk, fullPath)
        /\ fullText' = Append(fullText,
                ProposedEdit("edit", fullPath, filePath, originalContent,
                             applied.newContent))
        /\ toolLog' = ToolCall("edit_file", fullPath, {resolve(fullPath)},
                               IF applied.editCount = 0 THEN "nomatch" ELSE "proposal")
        /\ UNCHANGED disk

\* executeAITool case 'edit_file'
EditFileTool(filePath, edits) ==
    LET fullPath == ToolFullPath(filePath)
        originalContent == disk[resolve(fullPath)].content
        applied == ApplyEdits(edits, originalContent, 0)
    IN  /\ IF ~CanReadFile(disk, fullPath)
              THEN /\ toolLog' = ToolCall("edit_file", fullPath, {}, "error")
                   /\ UNCHANGED fullText
           ELSE IF applied.editCount = 0
              THEN /\ toolLog' = ToolCall("edit_file", fullPath, {resolve(fullPath)}, "nomatch")
                   /\ UNCHANGED fullText
           ELSE /\ fullText' = Append(fullText,
                        ProposedEdit("edit", fullPath, filePath, originalContent,
                                     applied.newContent))
                /\ toolLog' = ToolCall("edit_file", fullPath, {resolve(fullPath)}, "proposal")
        /\ UNCHANGED disk

\* Inputs the model provider hands to the tools.
ToolPaths == {<<"f">>, <<".", ".", "/", "w", "x", "/", "f">>, <<>>}

ToolContents == {<<"n">>}

ToolEdits ==
    {<<[old_text |-> <<"a">>, new_text |-> <<"n">>]>>,
     <<[old_text |-> <<"z">>, new_text |-> <<"n">>]>>}

\* One tool_use block of the tool loop of ai:sendMessage: executeAITool and
\* the chunk sent after it.
ExecuteAITool ==
    /\ isLoading
    /\ \/ \E p \in ToolPaths : ReadFileTool(p)
       \/ \E p \in ToolPaths : ListDirectoryTool(p)
       \/ \E p \in ToolPaths, c \in ToolContents :
             Proposed < MaxEdits /\ WriteFileTool(p, c)
       \/ \E p \in ToolPaths, e \in ToolEdits :
             Proposed < MaxEdits /\ EditFileTool(p, e)
    /\ UNCHANGED <<workspacePath, guardObs, lastFs, fsCalls, rootPath>>
    /\ UNCHANGED textVars
    /\ UNCHANGED treeVars
    /\ UNCHANGED <<currentWorkspacePath, isLoading, now, messages, pendingEdits,
                   calls, applyLog>>

\* ------------------------------------------------------------ chat and ledger

\* chatStore getPendingEdit: the first entry with the id, or none.
HasPendingEdit(edits, id) == \E i \in 1..Len(edits) : edits[i].id = id

getPendingEdit(edits, id) ==
    edits[CHOOSE i \in 1..Len(edits) :
            edits[i].id = id /\ \A j \in 1..(i - 1) : edits[j].id # id]

\* chatStore addPendingEdit, as MessageItem calls it.
addPendingEdit(edits, edit) ==
    Append(edits, [id |-> edit.id, type |-> edit.type, path |-> edit.path,
                   originalContent |-> edit.originalContent,
                   newContent |-> edit.newContent, status |-> "pending"])

RECURSIVE RegisterEditsUnchecked(_, _)
\* An effect of MessageItem that adds every decoded edit, known or not.
RegisterEditsUnchecked(edits, decoded) ==
    IF decoded = <<>> THEN edits
    ELSE RegisterEditsUnchecked(addPendingEdit(edits, Head(decoded)), Tail(decoded))

RECURSIVE RegisterEdits(_, _)
\* The effect of MessageItem over the edits decoded from its message: an edit
\* whose id the store does not know is added.
RegisterEdits(edits, decoded) ==
    IF decoded = <<>> THEN edits
    ELSE IF ~HasPendingEdit(edits, Head(decoded).id)
        THEN RegisterEdits(addPendingEdit(edits, Head(decoded)), Tail(decoded))
    ELSE RegisterEdits(edits, Tail(decoded))

\* chatStore updateEditStatus
updateEditStatus(edits, id, status) ==
    [i \in 1..Len(edits) |->
        IF edits[i].id = id THEN [edits[i] EXCEPT !.status = status] ELSE edits[i]]

\* A handleAcceptEdit that marks the edit applied whatever applyEdit answered.
AfterApplyEditAnyAnswer(edits, editId, success) ==
    updateEditStatus(edits, editId, "applied")

\* handleAcceptEdit after applyEdit has answered.
AfterApplyEdit(edits, editId, success) ==
    IF success THEN updateEditStatus(edits, editId, "applied") ELSE edits

\* The system prompt carries a project Path line when the renderer has a root.
SendMessage ==
    /\ ~isLoading
    /\ Len(messages) < MaxTurns
    /\ isLoading' = TRUE
    /\ messages' = Append(messages, <<>>)
    /\ currentWorkspacePath' = IF rootPath # NoRoot THEN rootPath ELSE currentWorkspacePath
    /\ fullText' = <<>>
    /\ UNCHANGED <<workspacePath, guardObs, disk, lastFs, fsCalls, rootPath>>
    /\ UNCHANGED <<now, pendingEdits, calls, applyLog, toolLog>>
    /\ UNCHANGED textVars
    /\ UNCHANGED treeVars

\* onAiChunk: the running message takes the text sent so far, and the effect
\* of MessageItem registers the edits decoded from it.
AiChunk ==
    /\ isLoading
    /\ messages' = [messages EXCEPT ![Len(messages)] = fullText]
    /\ pendingEdits' = RegisterEdits(pendingEdits, fullText)
    /\ UNCHANGED <<workspacePath, guardObs, disk, lastFs, fsCalls, rootPath>>
    /\ UNCHANGED textVars
    /\ UNCHANGED treeVars
    /\ UNCHANGED <<currentWorkspacePath, isLoading, now, fullText, calls, applyLog, toolLog>>

\* The end_turn branch: the last chunk, then the run returns, its conversation
\* with the tool results is dropped and the loading state ends.
EndTurn ==
    /\ isLoading
    /\ messages' = [messages EXCEPT ![Len(messages)] = fullText]
    /\ pendingEdits' = RegisterEdits(pendingEdits, fullText)
    /\ isLoading' = FALSE
    /\ toolLog' = NoToolCall
    /\ UNCHANGED <<workspacePath, guardObs, disk, lastFs, fsCalls, rootPath>>
    /\ UNCHANGED textVars
    /\ UNCHANGED treeVars
    /\ UNCHANGED <<currentWorkspacePath, now, fullText, calls, applyLog>>

\* A millisecond passes.
Tick ==
    /\ now < MaxTime
    /\ now' = now + 1
    /\ UNCHANGED <<workspacePath, guardObs, disk, lastFs, fsCalls, rootPath>>
    /\ UNCHANGED textVars
    /\ UNCHANGED treeVars
    /\ UNCHANGED <<currentWorkspacePath, isLoading, fullText, messages, pendingEdits,
                   calls, applyLog, toolLog>>

\* The DiffBlock of edit k of message m still shows its Accept and Reject
\* buttons: its ledger entry is neither applied nor rejected.
ButtonsShown(m, k) ==
    LET id == messages[m][k].id
    IN  HasPendingEdit(pendingEdits, id)
            => getPendingEdit(pendingEdits, id).status = "pending"

\* Content of the file at resolved path rp, empty when there is none.
ContentAt(d, rp) == IF IsFile(d, rp) THEN d[rp].content ELSE <<>>

\* node.children: undefined, or an array of nodes.
Undefined == <<>>
Some(nodes) == <<nodes>>

\* node.children || []
ChildrenOrEmpty(node) == IF node.children = Undefined THEN <<>> ELSE node.children[1]

\* The delay of the debounce timer, and the step of the clock of the model.
DebounceMs == 300
TickMs == DebounceMs \div 3

\* hasTempNodes of handleFsChange: an ephemeral node at the top of the tree or
\* among the children of a top node.
hasTempNodes(t) ==
    \/ \E i \in 1..Len(t) : t[i].isNew
    \/ \E i \in 1..Len(t) : \E k \in 1..Len(ChildrenOrEmpty(t[i])) :
            ChildrenOrEmpty(t[i])[k].isNew

\* The channel of the listener that onFsChange of the preload registers.
OnFsChangeChannel == "fs:changed"

\* mainWindow.webContents.send of a change, as the renderer takes it: the
\* listener of the channel calls handleFsChange of the workspace store; a
\* channel without a listener drops the message.
webContentsSend(channel, event, changedPath) ==
    LET blocked == editingNodeId # NoRoot \/ hasTempNodes(tree)
    IN  IF channel = OnFsChangeChannel
           THEN /\ treeObs' = [treeObs EXCEPT !.notified =
                       Append(@, [at |-> clock, path |-> changedPath, blocked |-> blocked])]
                /\ refreshTimeout' = IF blocked THEN refreshTimeout
                                     ELSE [set |-> TRUE, due |-> clock + DebounceMs,
                                           changedPath |-> changedPath]
                /\ UNCHANGED <<tree, expandedFolders, selectedPath, editingNodeId,
                               isCreating, tasks, clock>>
           ELSE UNCHANGED treeVars

\* handleAcceptEdit up to its await: the click sends ai:applyEdit.
AcceptClick(m, k) ==
    /\ ButtonsShown(m, k)
    /\ Len(calls) + Len(applyLog) < MaxAccepts
    /\ calls' = Append(calls,
            [editId |-> messages[m][k].id, path |-> messages[m][k].path,
             content |-> messages[m][k].newContent,
             base |-> messages[m][k].originalContent,
             pc |-> "sent", success |-> FALSE])
    /\ UNCHANGED <<workspacePath, guardObs, disk, lastFs, fsCalls, rootPath>>
    /\ UNCHANGED textVars
    /\ UNCHANGED treeVars
    /\ UNCHANGED <<currentWorkspacePath, isLoading, now, fullText, messages,
                   pendingEdits, applyLog, toolLog>>

\* What the log keeps of a finished ai:applyEdit.
Applied(c, success, made, before) ==
    [editId |-> c.editId, path |-> resolve(c.path), content |-> c.content,
     base |-> c.base, success |-> success, made |-> made, before |-> before,
     root |-> workspacePath]

\* ai:applyEdit: fs.mkdir of the parent, fs.writeFile, the send of the
\* change, true; a failure of mkdir or writeFile is caught and false returned.
ApplyEdit(i) ==
    LET c == calls[i]
        dirPath == dirname(c.path)
        made == MkdirPOn(disk, dirPath)
    IN  /\ c.pc = "sent"
        /\ IF CanMkdirP(disk, dirPath) /\ CanWriteFile(made, c.path)
              THEN /\ disk' = WriteFileOn(made, c.path, c.content)
                   /\ calls' = [calls EXCEPT ![i].pc = "done", ![i].success = TRUE]
                   /\ applyLog' = Append(applyLog,
                          Applied(c, TRUE, Changed(disk, made) \cup {resolve(c.path)},
                                  ContentAt(disk, resolve(c.path))))
                   /\ webContentsSend("fs:change", "change", c.path)
           ELSE IF CanMkdirP(disk, dirPath)
              THEN /\ disk' = made
                   /\ calls' = [calls EXCEPT ![i].pc = "done"]
                   /\ applyLog' = Append(applyLog,
                          Applied(c, FALSE, Changed(disk, made), <<>>))
                   /\ UNCHANGED treeVars
              ELSE /\ calls' = [calls EXCEPT ![i].pc = "done"]
                   /\ applyLog' = Append(applyLog, Applied(c, FALSE, {}, <<>>))
                   /\ UNCHANGED disk
                   /\ UNCHANGED treeVars
        /\ UNCHANGED <<workspacePath, guardObs, lastFs, fsCalls, rootPath>>
        /\ UNCHANGED textVars
        /\ UNCHANGED <<currentWorkspacePath, isLoading, now, fullText, messages,
                       pendingEdits, toolLog>>

RemoveAt(q, i) == SubSeq(q, 1, i - 1) \o SubSeq(q, i + 1, Len(q))

\* handleAcceptEdit after its await.
AcceptReturn(i) ==
    /\ calls[i].pc = "done"
    /\ pendingEdits' = AfterApplyEdit(pendingEdits, calls[i].editId, calls[i].success)
    /\ calls' = RemoveAt(calls, i)
    /\ UNCHANGED <<workspacePath, guardObs, disk, lastFs, fsCalls, rootPath>>
    /\ UNCHANGED textVars
    /\ UNCHANGED treeVars
    /\ UNCHANGED <<currentWorkspacePath, isLoading, now, fullText, messages,
                   applyLog, toolLog>>

\* handleRejectEdit
RejectClick(m, k) ==
    /\ ButtonsShown(m, k)
    /\ pendingEdits' = updateEditStatus(pendingEdits, messages[m][k].id, "rejected")
    /\ UNCHANGED <<workspacePath, guardObs, disk, lastFs, fsCalls, rootPath>>
    /\ UNCHANGED textVars
    /\ UNCHANGED treeVars
    /\ UNCHANGED <<currentWorkspacePath, isLoading, now, fullText, messages,
                   calls, applyLog, toolLog>>

\* Folders the user picks in the dialog while edits are proposed.
EditDirs == {<<"/", "w">>}

Init ==
    /\ workspacePath \in StoredRoots
    /\ guardObs = [checked |-> FALSE, arg |-> <<>>, res |-> FALSE]
    /\ disk = InitDisk
    /\ lastFs = NoFsOp
    /\ fsCalls = 0
    /\ InitChat

Next ==
    \/ \E dir \in EditDirs : fsCalls < MaxUiCalls /\ OpenFolder(dir)
    \/ SendMessage
    \/ ExecuteAITool
    \/ AiChunk
    \/ EndTurn
    \/ Tick
    \/ \E m \in 1..Len(messages) : \E k \in 1..Len(messages[m]) : AcceptClick(m, k)
    \/ \E m \in 1..Len(messages) : \E k \in 1..Len(messages[m]) : RejectClick(m, k)
    \/ \E i \in 1..Len(calls) : ApplyEdit(i)
    \/ \E i \in 1..Len(calls) : AcceptReturn(i)

Spec == Init /\ [][Next]_vars

\* ------------------------------------------------------------ marker text

\* Text is a sequence of tokens: a token is one character, or a run of
\* characters that holds no quote, backslash or bracket and is never cut.
\* The four delimiters are tokens.
DiffOpen == "[DIFF_BLOCK]"
DiffClose == "[/DIFF_BLOCK]"
StatusOpen == "[TOOL_STATUS]"
StatusClose == "[/TOOL_STATUS]"
Quote == "\""
Backslash == "\\"

RECURSIVE Escape(_)
\* The characters of a string inside JSON.stringify: quote and backslash are
\* escaped, everything else, brackets included, is written as it is.
Escape(str) ==
    IF str = <<>> THEN <<>>
    ELSE (IF Head(str) \in {Quote, Backslash} THEN <<Backslash, Head(str)>>
          ELSE <<Head(str)>>) \o Escape(Tail(str))

\* JSON.stringify of a string.
JsonString(str) == <<Quote>> \o Escape(str) \o <<Quote>>

RECURSIVE JsonStrings(_)
JsonStrings(strs) ==
    IF strs = <<>> THEN <<>> ELSE JsonString(Head(strs)) \o JsonStrings(Tail(strs))

\* JSON.stringify of an object whose values are strings: the values in the
\* order of the keys, between braces (keys, colons and commas left out).
stringify(values) == <<"{">> \o JsonStrings(values) \o <<"}">>

\* JSON.stringify(proposedEdit); __proposed_edit__: true is the first value.
stringifyEdit(e) ==
    stringify(<<<<"true">>, e.id, <<e.type>>, e.path, e.relativePath,
                e.originalContent, e.newContent>>)

\* JSON.stringify(runningStatus) and JSON.stringify(successStatus)
stringifyStatus(st) ==
    stringify(<<st.id, <<st.toolName>>, st.path, <<st.status>>, st.message>>)

RECURSIVE ReadString(_, _, _)
\* JSON.parse reading a string whose opening quote is before position i:
\* the value read so far is acc.  ok is FALSE when the text ends first.
ReadString(p, i, acc) ==
    IF i > Len(p) THEN [ok |-> FALSE, value |-> acc, next |-> i]
    ELSE IF p[i] = Quote THEN [ok |-> TRUE, value |-> acc, next |-> i + 1]
    ELSE IF p[i] = Backslash
        THEN IF i + 1 > Len(p) THEN [ok |-> FALSE, value |-> acc, next |-> i]
             ELSE ReadString(p, i + 2, Append(acc, p[i + 1]))
    ELSE ReadString(p, i + 1, Append(acc, p[i]))

RECURSIVE ReadValues(_, _, _)
\* JSON.parse reading the values of an object up to its closing brace, which
\* has to be the last token.
ReadValues(p, i, acc) ==
    IF i > Len(p) THEN [ok |-> FALSE, values |-> acc]
    ELSE IF p[i] = "}" THEN [ok |-> i = Len(p), values |-> acc]
    ELSE IF p[i] = Quote
        THEN LET r == ReadString(p, i + 1, <<>>)
             IN  IF r.ok THEN ReadValues(p, r.next, Append(acc, r.value))
                 ELSE [ok |-> FALSE, values |-> acc]
    ELSE [ok |-> FALSE, values |-> acc]

\* JSON.parse of a payload: the values of the object, or a SyntaxError.
parse(p) ==
    IF p # <<>> /\ p[1] = "{" THEN ReadValues(p, 2, <<>>)
    ELSE [ok |-> FALSE, values |-> <<>>]

\* editData as the renderer reads it.
EditData(values) ==
    [proposed |-> values[1] = <<"true">>, id |-> values[2], type |-> values[3][1],
     path |-> values[4], relativePath |-> values[5],
     originalContent |-> values[6], newContent |-> values[7]]

\* statusData as the renderer reads it.
StatusData(values) ==
    [id |-> values[1], toolName |-> values[2][1], path |-> values[3],
     status |-> values[4][1], message |-> values[5]]

\* The payload parses into an object of the shape of a proposed edit.
IsEditPayload(p) ==
    /\ parse(p).ok
    /\ Len(parse(p).values) = 7
    /\ Len(parse(p).values[3]) = 1

\* The payload parses into an object of the shape of a tool status.
IsStatusPayload(p) ==
    /\ parse(p).ok
    /\ Len(parse(p).values) = 5
    /\ Len(parse(p).values[2]) = 1
    /\ Len(parse(p).values[4]) = 1

\* Smallest index from pos on at which the token tok stands, 0 if none.
TokenFrom(text, tok, pos) ==
    LET hits == {i \in pos..Len(text) : text[i] = tok}
    IN  IF hits = {} THEN 0 ELSE CHOOSE i \in hits : \A j \in hits : i <= j

RECURSIVE ExecAll(_, _, _, _)
\* The matches of /open([\s\S]*?)close/g from pos on, in order: for each the
\* whole matched text and the captured payload.
ExecAll(text, open, close, pos) ==
    LET from == TokenFrom(text, open, pos)
        to == IF from = 0 THEN 0 ELSE TokenFrom(text, close, from + 1)
    IN  IF from = 0 \/ to = 0 THEN <<>>
        ELSE <<[whole |-> SubSeq(text, from, to),
                payload |-> SubSeq(text, from + 1, to - 1)]>>
                 \o ExecAll(text, open, close, to + 1)

\* Tokens String.prototype.trim removes.
Whitespace == {" ", "\n", "\n\n"}

RECURSIVE TrimStart(_)
TrimStart(text) ==
    IF text # <<>> /\ Head(text) \in Whitespace THEN TrimStart(Tail(text)) ELSE text

RECURSIVE TrimEnd(_)
TrimEnd(text) ==
    IF text # <<>> /\ text[Len(text)] \in Whitespace
        THEN TrimEnd(SubSeq(text, 1, Len(text) - 1))
    ELSE text

\* String.prototype.trim
trim(text) == TrimEnd(TrimStart(text))

RECURSIVE ExtractEdits(_, _)
\* Step 1 of parseMessageContent over the matches of editRegex: the edits
\* pushed and the clean text, a payload that does not parse being skipped.
ExtractEdits(matches, acc) ==
    IF matches = <<>> THEN acc
    ELSE IF IsEditPayload(Head(matches).payload)
        THEN ExtractEdits(Tail(matches),
                [cleanText |-> replace(acc.cleanText, Head(matches).whole, <<>>),
                 edits |-> Append(acc.edits, EditData(parse(Head(matches).payload).values))])
    ELSE ExtractEdits(Tail(matches), acc)

\* Map.prototype.set on a map kept as the sequence of its values in
\* insertion order: a known key keeps its place and takes the new value.
MapSet(map, value) ==
    IF \E i \in 1..Len(map) : map[i].id = value.id
        THEN [i \in 1..Len(map) |-> IF map[i].id = value.id THEN value ELSE map[i]]
    ELSE Append(map, value)

RECURSIVE ExtractStatuses(_, _)
\* Step 2 of parseMessageContent over the matches of toolRegex.
ExtractStatuses(matches, acc) ==
    IF matches = <<>> THEN acc
    ELSE IF IsStatusPayload(Head(matches).payload)
        THEN ExtractStatuses(Tail(matches),
                [cleanText |-> replace(acc.cleanText, Head(matches).whole, <<>>),
                 map |-> MapSet(acc.map, StatusData(parse(Head(matches).payload).values))])
    ELSE ExtractStatuses(Tail(matches), acc)

\* Place of an id token in the order of localeCompare.
IdRank(id) ==
    IF id = <<>> THEN 0
    ELSE CASE id[Len(id)] = "t1" -> 1
           [] id[Len(id)] = "t2" -> 2
           [] id[Len(id)] = "t3" -> 3
           [] OTHER -> 0

RECURSIVE InsertSorted(_, _)
InsertSorted(sorted, value) ==
    IF sorted = <<>> THEN <<value>>
    ELSE IF IdRank(value.id) < IdRank(Head(sorted).id) THEN <<value>> \o sorted
    ELSE <<Head(sorted)>> \o InsertSorted(Tail(sorted), value)

RECURSIVE SortById(_)
\* Array.prototype.sort by a.id.localeCompare(b.id), stable.
SortById(values) ==
    IF values = <<>> THEN <<>>
    ELSE InsertSorted(SortById(SubSeq(values, 1, Len(values) - 1)), values[Len(values)])

\* parseMessageContent
parseMessageContent(text) ==
    LET step1 == ExtractEdits(ExecAll(text, DiffOpen, DiffClose, 1),
                              [cleanText |-> text, edits |-> <<>>])
        step2 == ExtractStatuses(ExecAll(text, StatusOpen, StatusClose, 1),
                                 [cleanText |-> step1.cleanText, map |-> <<>>])
    IN  [cleanText |-> trim(step2.cleanText),
         edits |-> step1.edits,
         toolStatuses |-> SortById(step2.map)]

\* ------------------------------------------------- edit loop specification

\* File contents, and the old_text and new_text of the edits, handed to
\* edit_file.
EditContents == {<<"a">>, <<"a", "b">>, <<"b", "a", "b">>}

EditOldTexts == {<<"a">>, <<"b">>, <<"a", "b">>, <<"z">>}

EditNewTexts == {<<"b">>, <<"$", "&">>, <<"$", "$">>, <<>>}

EditPairs == {[old_text |-> o, new_text |-> n] : o \in EditOldTexts, n \in EditNewTexts}

EditLists == UNION {[1..n -> EditPairs] : n \in 0..MaxEditList}

InitEdit ==
    /\ workspacePath = NoRoot
    /\ guardObs = [checked |-> FALSE, arg |-> <<>>, res |-> FALSE]
    /\ disk = InitDisk
    /\ lastFs = NoFsOp
    /\ fsCalls = 0
    /\ InitChat

\* The loop of edit_file over one file content and one list of edits.
RunEdits(content, edits) ==
    /\ editObs' = [ran |-> TRUE, content |-> content, edits |-> edits,
                   newContent |-> ApplyEdits(edits, content, 0).newContent,
                   editCount |-> ApplyEdits(edits, content, 0).editCount]
    /\ UNCHANGED <<workspacePath, guardObs, disk, lastFs, fsCalls, rootPath>>
    /\ UNCHANGED <<currentWorkspacePath, isLoading, now, fullText, messages, pendingEdits,
                   calls, applyLog, toolLog>>
    /\ UNCHANGED <<decodeObs, sessionMessages, sendRun, request, chunkListeners>>
    /\ UNCHANGED treeVars

NextEdit == \E content \in EditContents, edits \in EditLists : RunEdits(content, edits)

SpecEdit == InitEdit /\ [][NextEdit]_vars

\* --------------------------------------------------- decoder specification

\* A proposal marker and a status marker as main.ts writes them.
EditMarker(e) == <<DiffOpen>> \o stringifyEdit(e) \o <<DiffClose>>

StatusMarker(st) == <<StatusOpen>> \o stringifyStatus(st) \o <<StatusClose>>

\* Payloads of the decoded texts.
SomeEdit(n, newContent) ==
    [id |-> <<"edit-", n>>, type |-> "write", path |-> <<"f">>, relativePath |-> <<"f">>,
     originalContent |-> <<>>, newContent |-> newContent]

SomeStatus(t, status) ==
    [id |-> <<"status-", t>>, toolName |-> "read_file", path |-> <<"f">>,
     status |-> status, message |-> <<"m">>]

\* Pieces the decoded texts are made of: whole markers, markers whose closing
\* delimiter is still to come, lone closing delimiters, prose.
DecodeSegs ==
    {EditMarker(SomeEdit("1", <<"n">>)),
     EditMarker(SomeEdit("1", <<"m">>)),
     StatusMarker(SomeStatus("t1", "running")),
     StatusMarker(SomeStatus("t1", "success")),
     <<DiffOpen>> \o stringifyEdit(SomeEdit("2", <<"n">>)),
     <<DiffClose>>,
     <<StatusOpen>> \o stringifyStatus(SomeStatus("t2", "success")),
     <<StatusClose>>,
     <<"x">>}

DecodeTexts == {Flatten(segs) : segs \in UNION {[1..n -> DecodeSegs] : n \in 0..MaxTextSegs}}

InitDecode == InitEdit

\* Two decode passes of one message: over its text, then over the text with
\* the suffix that arrived after.
Decode(text, suffix) ==
    /\ ~decodeObs.ran
    /\ decodeObs' = [ran |-> TRUE, text |-> text, suffix |-> suffix,
                     first |-> parseMessageContent(text),
                     second |-> parseMessageContent(text \o suffix)]
    /\ UNCHANGED <<workspacePath, guardObs, disk, lastFs, fsCalls, rootPath>>
    /\ UNCHANGED <<currentWorkspacePath, isLoading, now, fullText, messages, pendingEdits,
                   calls, applyLog, toolLog>>
    /\ UNCHANGED <<editObs, sessionMessages, sendRun, request, chunkListeners>>
    /\ UNCHANGED treeVars

NextDecode == \E text \in DecodeTexts, suffix \in DecodeTexts : Decode(text, suffix)

SpecDecode == InitDecode /\ [][NextDecode]_vars

\* ---------------------------------------------------------------- tool loop

\* Length in characters of a token that is a run of characters.
TokenLen(tok) ==
    CASE tok = DiffOpen -> 12
      [] tok = DiffClose -> 13
      [] tok = StatusOpen -> 13
      [] tok = StatusClose -> 14
      [] tok = "File: " -> 6
      [] tok = "Unknown tool: " -> 14
      [] tok = "Error" -> 5
      [] tok = " executing " -> 11
      [] tok = "No matches found in " -> 23
      [] tok = ". The old_text must match exactly." -> 34
      [] tok = "ENOENT" -> 6
      [] tok = "   1 | " -> 7
      [] tok = "\n\n" -> 2
      [] OTHER -> 1

RECURSIVE substring(_, _)
\* result.substring(0, n); a token the cut would fall in is left out.
substring(text, n) ==
    IF text = <<>> \/ TokenLen(Head(text)) > n THEN <<>>
    ELSE <<Head(text)>> \o substring(Tail(text), n - TokenLen(Head(text)))

\* result.includes('[DIFF_BLOCK]')
includesDiffBlock(result) == \E i \in 1..Len(result) : result[i] = DiffOpen

\* result.startsWith('Error')
startsWithError(result) == result # <<>> /\ result[1] = "Error"

\* The text of the catch of executeAITool.
ErrorText(toolName) == <<"Error", " executing ", toolName, ": ", "ENOENT">>

\* The proposal of write_file and edit_file as the text they return.
ProposalText(type, fullPath, filePath, originalContent, newContent) ==
    <<"\n\n">>
        \o EditMarker([ProposedEdit(type, fullPath, filePath, originalContent, newContent)
                          EXCEPT !.id = <<"edit-", ToString(now)>>])
        \o <<"\n\n", "I've prepared changes for ">> \o filePath

\* executeAITool: the text it returns.
executeAITool(toolName, toolInput) ==
    LET filePath == toolInput.path
        fullPath == ToolFullPath(filePath)
        readable == CanReadFile(disk, fullPath)
        content == IF readable THEN disk[resolve(fullPath)].content ELSE <<>>
        applied == ApplyEdits(toolInput.edits, content, 0)
    IN  CASE toolName = "read_file" ->
               IF readable THEN <<"File: ">> \o filePath \o <<"\n\n", "   1 | ">> \o content
               ELSE ErrorText(toolName)
          [] toolName = "write_file" ->
               ProposalText("write", fullPath, filePath, content, toolInput.content)
          [] toolName = "edit_file" ->
               IF ~readable THEN ErrorText(toolName)
               ELSE IF applied.editCount = 0
                   THEN <<"No matches found in ">> \o filePath
                            \o <<". The old_text must match exactly.">>
               ELSE ProposalText("edit", fullPath, filePath, content, applied.newContent)
          [] OTHER -> <<"Unknown tool: ", toolName>>

\* What became of the invocation: done, failed in the catch, an edit_file
\* without a match, or a tool that does not exist.
ToolOutcome(toolName, toolInput) ==
    LET readable == CanReadFile(disk, ToolFullPath(toolInput.path))
        content == IF readable THEN disk[resolve(ToolFullPath(toolInput.path))].content
                   ELSE <<>>
    IN  CASE toolName = "read_file" -> IF readable THEN "ok" ELSE "ioerror"
          [] toolName = "write_file" -> "ok"
          [] toolName = "edit_file" ->
               IF ~readable THEN "ioerror"
               ELSE IF ApplyEdits(toolInput.edits, content, 0).editCount = 0 THEN "nomatch"
               ELSE "ok"
          [] OTHER -> "unknown"

\* chatStore getConversationHistory
getConversationHistory(msgs) ==
    LET kept == SelectSeq(msgs, LAMBDA m : m.id # <<"welcome">> /\ trim(m.text) # <<>>)
    IN  [i \in 1..Len(kept) |->
            [role |-> IF kept[i].role = "model" THEN "assistant" ELSE "user",
             content |-> kept[i].text, toolUses |-> <<>>, toolResults |-> <<>>]]

\* chatStore updateMessage
updateMessage(msgs, id, text) ==
    [i \in 1..Len(msgs) |-> IF msgs[i].id = id THEN [msgs[i] EXCEPT !.text = text] ELSE msgs[i]]

\* chatStore setMessageError
setMessageError(msgs, id, isError) ==
    [i \in 1..Len(msgs) |->
        IF msgs[i].id = id THEN [msgs[i] EXCEPT !.isError = isError] ELSE msgs[i]]

\* An ai:chunk event in the renderer: every listener that is subscribed calls
\* updateMessage with the id of the message it was made for.
OnAiChunk(msgs, text) ==
    [i \in 1..Len(msgs) |->
        IF msgs[i].id \in chunkListeners THEN [msgs[i] EXCEPT !.text = text] ELSE msgs[i]]

\* The running and the final status of a tool_use block.
ToolStatus(block, status, message) ==
    [id |-> <<"status-", block.id>>, toolName |-> block.name, path |-> block.input.path,
     status |-> status, message |-> message]

\* A tool_use block of a response.
ToolUse(id, name, path, content, edits) ==
    [id |-> id, name |-> name,
     input |-> [path |-> path, content |-> content, edits |-> edits]]

\* Messages the user sends.
UserTexts == {<<"q">>}

\* handleSendMessage up to the call of ai:sendMessage, and ai:sendMessage up
\* to its tool loop.
SendIpc(message) ==
    LET withUser == Append(sessionMessages,
                        [id |-> <<ToString(Len(sessionMessages) + 1)>>, role |-> "user",
                         text |-> message, isError |-> FALSE])
        withModel == Append(withUser,
                        [id |-> <<ToString(Len(sessionMessages) + 2)>>, role |-> "model",
                         text |-> <<>>, isError |-> FALSE])
    IN  /\ ~isLoading
        /\ sendRun.pc = "idle"
        /\ Len(sessionMessages) < 1 + 2 * MaxLoopTurns
        /\ sessionMessages' = withModel
        /\ isLoading' = TRUE
        /\ currentWorkspacePath' =
              IF rootPath # NoRoot THEN rootPath ELSE currentWorkspacePath
        /\ chunkListeners' = chunkListeners \cup {<<ToString(Len(sessionMessages) + 2)>>}
        /\ sendRun' = [NoRun EXCEPT
              !.pc = "call",
              !.msgId = <<ToString(Len(sessionMessages) + 2)>>,
              !.apiMessages = Append(getConversationHistory(withModel),
                                [role |-> "user", content |-> message,
                                 toolUses |-> <<>>, toolResults |-> <<>>])]
        /\ UNCHANGED <<workspacePath, guardObs, disk, lastFs, fsCalls, rootPath>>
        /\ UNCHANGED <<now, fullText, messages, pendingEdits, calls, applyLog, toolLog>>
        /\ UNCHANGED <<editObs, decodeObs, request>>
        /\ UNCHANGED treeVars

\* anthropic.messages.create answers end_turn: the text is added and sent,
\* the loop breaks, the handler returns and the loading state ends.
EndTurnResponse(text) ==
    /\ sendRun.pc = "call"
    /\ request' = sendRun.apiMessages
    /\ sessionMessages' = OnAiChunk(sessionMessages, sendRun.fullText \o text)
    /\ sendRun' = [NoRun EXCEPT !.fullText = sendRun.fullText \o text, !.stop = "end_turn",
                                !.received = Append(sendRun.received, text)]
    /\ chunkListeners' = chunkListeners \ {sendRun.msgId}
    /\ isLoading' = FALSE
    /\ UNCHANGED <<workspacePath, guardObs, disk, lastFs, fsCalls, rootPath>>
    /\ UNCHANGED <<currentWorkspacePath, now, fullText, messages, pendingEdits,
                   calls, applyLog, toolLog>>
    /\ UNCHANGED <<editObs, decodeObs>>
    /\ UNCHANGED treeVars

\* anthropic.messages.create answers with another stop reason and a text
\* block: the loop breaks with nothing added and nothing sent.
OtherStopResponse(text) ==
    /\ sendRun.pc = "call"
    /\ request' = sendRun.apiMessages
    /\ sendRun' = [NoRun EXCEPT !.fullText = sendRun.fullText, !.stop = "other",
                                !.received = Append(sendRun.received, text)]
    /\ chunkListeners' = chunkListeners \ {sendRun.msgId}
    /\ isLoading' = FALSE
    /\ UNCHANGED <<workspacePath, guardObs, disk, lastFs, fsCalls, rootPath>>
    /\ UNCHANGED <<currentWorkspacePath, now, fullText, messages, pendingEdits,
                   calls, applyLog, toolLog>>
    /\ UNCHANGED <<editObs, decodeObs, sessionMessages>>
    /\ UNCHANGED treeVars

\* What the renderer shows for a request that was rejected.
ErrorTurnText == <<"Error: ", "AI Error: ", "overloaded">>

\* A provider that is asked again after its call has failed.
ProviderFailureRetried ==
    /\ sendRun.pc = "call"
    /\ request' = sendRun.apiMessages
    /\ sendRun' = [sendRun EXCEPT !.stop = "error"]
    /\ UNCHANGED <<workspacePath, guardObs, disk, lastFs, fsCalls, rootPath>>
    /\ UNCHANGED <<currentWorkspacePath, isLoading, now, fullText, messages, pendingEdits,
                   calls, applyLog, toolLog>>
    /\ UNCHANGED <<editObs, decodeObs, sessionMessages, chunkListeners>>
    /\ UNCHANGED treeVars

\* anthropic.messages.create throws: the catch of ai:sendMessage throws the
\* error on, the invoke of the renderer is rejected, and the catch and the
\* finally of handleSendMessage mark the message of the run, put the error
\* text in it and end the loading state. The listener stays subscribed.
ProviderFailure ==
    /\ sendRun.pc = "call"
    /\ request' = sendRun.apiMessages
    /\ sendRun' = [NoRun EXCEPT !.fullText = sendRun.fullText, !.stop = "error",
                                !.msgId = sendRun.msgId, !.received = sendRun.received]
    /\ sessionMessages' =
          updateMessage(setMessageError(sessionMessages, sendRun.msgId, TRUE),
                        sendRun.msgId, ErrorTurnText)
    /\ isLoading' = FALSE
    /\ UNCHANGED <<workspacePath, guardObs, disk, lastFs, fsCalls, rootPath>>
    /\ UNCHANGED <<currentWorkspacePath, now, fullText, messages, pendingEdits,
                   calls, applyLog, toolLog>>
    /\ UNCHANGED <<editObs, decodeObs, chunkListeners>>
    /\ UNCHANGED treeVars

\* anthropic.messages.create answers tool_use with a text block and tool_use
\* blocks: the text is added, the blocks wait for their turn.
ToolUseResponse(text, blocks) ==
    /\ sendRun.pc = "call"
    /\ sendRun.rounds < MaxToolRounds
    /\ request' = sendRun.apiMessages
    /\ sendRun' = [sendRun EXCEPT
          !.pc = "tools",
          !.fullText = sendRun.fullText \o text,
          !.received = Append(sendRun.received, text),
          !.blocks = blocks,
          !.assistantContent = [text |-> text, toolUses |-> blocks],
          !.toolResults = <<>>,
          !.rounds = sendRun.rounds + 1]
    /\ UNCHANGED <<workspacePath, guardObs, disk, lastFs, fsCalls, rootPath>>
    /\ UNCHANGED <<currentWorkspacePath, isLoading, now, fullText, messages, pendingEdits,
                   calls, applyLog, toolLog>>
    /\ UNCHANGED <<editObs, decodeObs, sessionMessages, chunkListeners>>
    /\ UNCHANGED treeVars

\* A tool loop that starts the tool without a word to the UI.
ToolStartWithoutMarker ==
    /\ sendRun.pc = "tools"
    /\ sendRun' = [sendRun EXCEPT !.pc = "await"]
    /\ UNCHANGED <<workspacePath, guardObs, disk, lastFs, fsCalls, rootPath>>
    /\ UNCHANGED <<currentWorkspacePath, isLoading, now, fullText, messages,
                   pendingEdits, calls, applyLog, toolLog>>
    /\ UNCHANGED <<editObs, decodeObs, request, sessionMessages, chunkListeners>>
    /\ UNCHANGED treeVars

\* The tool loop at the next tool_use block: the running status is added and
\* sent, and executeAITool is called.
ToolStart ==
    LET block == Head(sendRun.blocks)
        text == sendRun.fullText \o <<"\n\n">>
                    \o StatusMarker(ToolStatus(block, "running", <<"Executing...">>))
                    \o <<"\n\n">>
    IN  /\ sendRun.pc = "tools"
        /\ sendRun' = [sendRun EXCEPT !.pc = "await", !.fullText = text]
        /\ sessionMessages' = OnAiChunk(sessionMessages, text)
        /\ UNCHANGED <<workspacePath, guardObs, disk, lastFs, fsCalls, rootPath>>
        /\ UNCHANGED <<currentWorkspacePath, isLoading, now, fullText, messages,
                       pendingEdits, calls, applyLog, toolLog>>
        /\ UNCHANGED <<editObs, decodeObs, request, chunkListeners>>
        /\ UNCHANGED treeVars

\* The tool result pushed for a block.
ToolResult(block, content, status) ==
    [tool_use_id |-> block.id, content |-> content, status |-> status,
     outcome |-> ToolOutcome(block.name, block.input)]

\* The text of the tool result of a proposal.
EditProposedText ==
    <<"Edit proposed successfully. The user will review and accept/reject the changes.">>

\* A loop that goes to the next call with the tool results only.
AfterBlocksResultsOnly(run) ==
    IF run.blocks # <<>> THEN [run EXCEPT !.pc = "tools"]
    ELSE [run EXCEPT
            !.pc = "call",
            !.apiMessages = Append(run.apiMessages,
                [role |-> "user", content |-> <<>>,
                 toolUses |-> <<>>, toolResults |-> run.toolResults])]

\* The run after the last block of a response: the assistant message and the
\* tool results are pushed, and the loop goes to the next call.
AfterBlocks(run) ==
    IF run.blocks # <<>> THEN [run EXCEPT !.pc = "tools"]
    ELSE [run EXCEPT
            !.pc = "call",
            !.apiMessages = run.apiMessages \o
                <<[role |-> "assistant", content |-> run.assistantContent.text,
                   toolUses |-> run.assistantContent.toolUses, toolResults |-> <<>>],
                  [role |-> "user", content |-> <<>>,
                   toolUses |-> <<>>, toolResults |-> run.toolResults]>>]

\* A tool loop that gives up the rest of the response when a tool fails.
ToolFinishGivingUp ==
    LET block == Head(sendRun.blocks)
        result == executeAITool(block.name, block.input)
        status == IF startsWithError(result) THEN "error" ELSE "success"
    IN  /\ sendRun.pc = "await"
        /\ sendRun' =
              IF ToolOutcome(block.name, block.input) # "ok"
                  THEN AfterBlocks([sendRun EXCEPT !.blocks = <<>>])
              ELSE AfterBlocks([sendRun EXCEPT
                      !.blocks = Tail(sendRun.blocks),
                      !.toolResults = Append(sendRun.toolResults,
                                             ToolResult(block, result, status))])
        /\ UNCHANGED <<workspacePath, guardObs, disk, lastFs, fsCalls, rootPath>>
        /\ UNCHANGED <<currentWorkspacePath, isLoading, now, fullText, messages,
                       pendingEdits, calls, applyLog, toolLog>>
        /\ UNCHANGED <<editObs, decodeObs, request, sessionMessages, chunkListeners>>
        /\ UNCHANGED treeVars

\* A tool loop that feeds the provider what the tool returned, proposal or not.
ToolFinishRawResult ==
    LET block == Head(sendRun.blocks)
        result == executeAITool(block.name, block.input)
        status == IF startsWithError(result) THEN "error" ELSE "success"
        message == IF includesDiffBlock(result) THEN <<"Edit proposed">>
                   ELSE substring(result, 100)
        withStatus == sendRun.fullText \o StatusMarker(ToolStatus(block, status, message))
        text == IF includesDiffBlock(result) THEN withStatus \o result ELSE withStatus
    IN  /\ sendRun.pc = "await"
        /\ sendRun' = AfterBlocks([sendRun EXCEPT
              !.fullText = text,
              !.blocks = Tail(sendRun.blocks),
              !.toolResults = Append(sendRun.toolResults,
                                     ToolResult(block, result, status))])
        /\ sessionMessages' = OnAiChunk(sessionMessages, text)
        /\ UNCHANGED <<workspacePath, guardObs, disk, lastFs, fsCalls, rootPath>>
        /\ UNCHANGED <<currentWorkspacePath, isLoading, now, fullText, messages,
                       pendingEdits, calls, applyLog, toolLog>>
        /\ UNCHANGED <<editObs, decodeObs, request, chunkListeners>>
        /\ UNCHANGED treeVars

\* The tool loop after executeAITool has returned: the final status is added
\* and sent, a proposal is added and sent, the tool result is pushed.
ToolFinish ==
    LET block == Head(sendRun.blocks)
        result == executeAITool(block.name, block.input)
        status == IF startsWithError(result) THEN "error" ELSE "success"
        message == IF includesDiffBlock(result) THEN <<"Edit proposed">>
                   ELSE substring(result, 100)
        withStatus == sendRun.fullText \o StatusMarker(ToolStatus(block, status, message))
        text == IF includesDiffBlock(result) THEN withStatus \o result ELSE withStatus
        content == IF includesDiffBlock(result) THEN EditProposedText ELSE result
    IN  /\ sendRun.pc = "await"
        /\ sendRun' = AfterBlocks([sendRun EXCEPT
              !.fullText = text,
              !.blocks = Tail(sendRun.blocks),
              !.toolResults = Append(sendRun.toolResults,
                                     ToolResult(block, content, status))])
        /\ sessionMessages' = OnAiChunk(sessionMessages, text)
        /\ UNCHANGED <<workspacePath, guardObs, disk, lastFs, fsCalls, rootPath>>
        /\ UNCHANGED <<currentWorkspacePath, isLoading, now, fullText, messages,
                       pendingEdits, calls, applyLog, toolLog>>
        /\ UNCHANGED <<editObs, decodeObs, request, chunkListeners>>
        /\ UNCHANGED treeVars

\* The disk of the tool loop model: two more files, one whose text holds the
\* closing delimiter of a status marker and one whose text holds the opening
\* delimiter of a proposal.
LoopDisk ==
    [q \in DOMAIN InitDisk \cup {<<"/", "w", "/", "m">>, <<"/", "w", "/", "d">>} |->
        IF q \in DOMAIN InitDisk THEN InitDisk[q]
        ELSE IF q = <<"/", "w", "/", "m">> THEN File(<<StatusClose>>)
        ELSE File(<<DiffOpen>>)]

\* What the provider asks for: a file read, the reads of the files with the
\* delimiters, the read of a missing file, an edit that matches nothing, a
\* tool that does not exist, a file written.
LoopTools ==
    {[name |-> "read_file", input |-> [path |-> <<"w", "/", "f">>, content |-> <<>>, edits |-> <<>>]],
     [name |-> "read_file", input |-> [path |-> <<"w", "/", "m">>, content |-> <<>>, edits |-> <<>>]],
     [name |-> "read_file", input |-> [path |-> <<"w", "/", "d">>, content |-> <<>>, edits |-> <<>>]],
     [name |-> "read_file", input |-> [path |-> <<"w", "/", "z">>, content |-> <<>>, edits |-> <<>>]],
     [name |-> "edit_file", input |-> [path |-> <<"w", "/", "f">>, content |-> <<>>,
                                       edits |-> <<[old_text |-> <<"z">>, new_text |-> <<"n">>]>>]],
     [name |-> "run_command", input |-> [path |-> <<>>, content |-> <<>>, edits |-> <<>>]],
     [name |-> "write_file", input |-> [path |-> <<"w", "/", "f">>, content |-> <<"n">>, edits |-> <<>>]]}

\* The block ids of a response, by place.
BlockId(k) == CASE k = 1 -> "t1" [] k = 2 -> "t2" [] OTHER -> "t3"

\* The tool_use blocks of one response.
LoopBlocks ==
    {[k \in 1..n |-> ToolUse(BlockId(k), tools[k].name, tools[k].input.path,
                             tools[k].input.content, tools[k].input.edits)] :
        n \in 1..MaxBlocks, tools \in [1..MaxBlocks -> LoopTools]}

\* Text blocks of a response.
ModelTexts == {<<"ok">>}

InitLoop ==
    /\ workspacePath = NoRoot
    /\ guardObs = [checked |-> FALSE, arg |-> <<>>, res |-> FALSE]
    /\ disk = LoopDisk
    /\ lastFs = NoFsOp
    /\ fsCalls = 0
    /\ InitChat

NextLoop ==
    \/ \E message \in UserTexts : SendIpc(message)
    \/ \E text \in ModelTexts : EndTurnResponse(text)
    \/ \E text \in ModelTexts : OtherStopResponse(text)
    \/ ProviderFailure
    \/ \E text \in ModelTexts, blocks \in LoopBlocks : ToolUseResponse(text, blocks)
    \/ ToolStart
    \/ ToolFinish

SpecLoop == InitLoop /\ [][NextLoop]_vars

\* ---------------------------------------------------------- workspace store

\* A FileNode.  readDirSafe and the store give every node path = id.
FileNode(id, name, isFolder, isNew) ==
    [id |-> id, name |-> name, path |-> id, isFolder |-> isFolder,
     children |-> Undefined, isNew |-> isNew]

\* Collation of the characters of the names on the modelled disk.
Alphabet == <<"a", "b", "c", "f", "g", "w", "x">>
CharRank(c) == IF \E i \in 1..Len(Alphabet) : Alphabet[i] = c
               THEN CHOOSE i \in 1..Len(Alphabet) : Alphabet[i] = c
               ELSE 0

\* a.localeCompare(b) < 0
RECURSIVE localeCompareLess(_, _)
localeCompareLess(a, b) ==
    IF b = <<>> THEN FALSE
    ELSE IF a = <<>> THEN TRUE
    ELSE IF CharRank(Head(a)) # CharRank(Head(b)) THEN CharRank(Head(a)) < CharRank(Head(b))
    ELSE localeCompareLess(Tail(a), Tail(b))

\* The comparator of readDirSafe: folders first, then by name.
NodeBefore(a, b) ==
    IF a.isFolder # b.isFolder THEN a.isFolder
    ELSE localeCompareLess(a.name, b.name)

RECURSIVE SortNodes(_)
SortNodes(S) ==
    IF S = {} THEN <<>>
    ELSE LET first == CHOOSE x \in S : \A y \in S \ {x} : NodeBefore(x, y)
         IN  <<first>> \o SortNodes(S \ {first})

\* readDirSafe of main: the entries of dirPath without the dot files, as nodes,
\* sorted; an unreadable directory gives the empty list.
readDirSafe(d, dirPath) ==
    IF ~CanReaddir(d, dirPath) THEN <<>>
    ELSE SortNodes({FileNode(join(dirPath, basename(q)), basename(q), IsDir(d, q), FALSE) :
                        q \in {c \in Children(d, resolve(dirPath)) : Head(basename(c)) # "."}})

\* updateTreeChildren: newChildren replaces the children of every node whose
\* path is folderPath, searched through the attached children.
RECURSIVE updateTreeChildren(_, _, _)
updateTreeChildren(t, folderPath, newChildren) ==
    [i \in 1..Len(t) |->
        IF t[i].path = folderPath THEN [t[i] EXCEPT !.children = newChildren]
        ELSE IF t[i].children # Undefined
             THEN [t[i] EXCEPT !.children =
                        Some(updateTreeChildren(t[i].children[1], folderPath, newChildren))]
             ELSE t[i]]

\* addNodeToTree
RECURSIVE addNodeToTree(_, _, _, _)
addNodeToTree(t, parentPath, newNode, root) ==
    IF parentPath = NoRoot \/ parentPath = root THEN <<newNode>> \o t
    ELSE [i \in 1..Len(t) |->
            IF t[i].path = parentPath
               THEN [t[i] EXCEPT !.children = Some(<<newNode>> \o ChildrenOrEmpty(t[i]))]
            ELSE IF t[i].children # Undefined
                 THEN [t[i] EXCEPT !.children =
                            Some(addNodeToTree(t[i].children[1], parentPath, newNode, root))]
                 ELSE t[i]]

\* removeNodeFromTree
RECURSIVE removeNodeFromTree(_, _)
removeNodeFromTree(t, nodeId) ==
    LET kept == SelectSeq(t, LAMBDA n : n.id # nodeId)
    IN  [i \in 1..Len(kept) |->
            IF kept[i].children # Undefined
               THEN [kept[i] EXCEPT !.children =
                        Some(removeNodeFromTree(kept[i].children[1], nodeId))]
               ELSE kept[i]]

\* getParentPath: the text before the last slash.
getParentPath(filePath) ==
    LET parts == split(replaceBackslashes(filePath))
    IN  JoinSegs(SubSeq(parts, 1, Len(parts) - 1))

\* The Set of expanded paths, kept in insertion order.
Has(set, x) == \E i \in 1..Len(set) : set[i] = x
SetAdd(set, x) == IF Has(set, x) THEN set ELSE Append(set, x)
SetDelete(set, x) == SelectSeq(set, LAMBDA y : y # x)

\* All nodes of a tree, the attached children included.
RECURSIVE AllNodes(_)
AllNodes(t) ==
    IF t = <<>> THEN {}
    ELSE {Head(t)} \cup AllNodes(ChildrenOrEmpty(Head(t))) \cup AllNodes(Tail(t))

\* What fs.readDir answers to the renderer: the listing, or a rejection when
\* the path is outside the workspace of main.
readDirIpc(dirPath) ==
    IF isWithinWorkspace(dirPath) THEN [ok |-> TRUE, items |-> readDirSafe(disk, dirPath)]
    ELSE [ok |-> FALSE, items |-> <<>>]

\* An async store action suspended at an await: the locals it captured before
\* the await and the answer main has given; and what its caller does when the
\* action has returned: deleteItem clears the selection, moveItem refreshes
\* the destination folder.
Task(kind, folderPath, expanded, treeSeen, answer, todo, tempId) ==
    [kind |-> kind, folderPath |-> folderPath, expandedFolders |-> expanded,
     tree |-> treeSeen, answer |-> answer, todo |-> todo, tempId |-> tempId,
     clearSelected |-> FALSE, thenRefresh |-> NoRoot]

\* One more call of a store action by the user interface.
UserOp ==
    /\ treeObs.ops < MaxTreeOps
    /\ treeObs' = [treeObs EXCEPT !.ops = @ + 1]

\* openFolder of the store with fs:openFolder of main, a folder chosen: main
\* takes the folder as its workspace and lists it, the store replaces its tree.
openFolder(dir) ==
    /\ dir \in DialogDirs(disk)
    /\ UserOp
    /\ workspacePath' = dir
    /\ rootPath' = dir
    /\ lastFs' = [op |-> "openFolder", denied |-> FALSE, touched |-> {dir}, root |-> dir]
    /\ tree' = readDirSafe(disk, dir)
    /\ expandedFolders' = <<>>
    /\ selectedPath' = NoRoot
    /\ editingNodeId' = NoRoot
    /\ UNCHANGED <<disk, guardObs, fsCalls, isCreating, tasks, refreshTimeout, clock>>
    /\ UNCHANGED chatVars

\* The store leaves main and the chat alone.
StoreOnly ==
    /\ UNCHANGED <<workspacePath, guardObs, lastFs, fsCalls, rootPath>>
    /\ UNCHANGED chatVars

\* toggleFolder with a collapse that takes the folder out of the expanded set
\* and leaves its children attached.
toggleFolderKeepingChildren(folderPath) ==
    /\ treeObs.ops < MaxTreeOps
    /\ treeObs' = [treeObs EXCEPT !.ops = @ + 1,
                                  !.toggled = Append(@, [path |-> folderPath,
                                        collapse |-> Has(expandedFolders, folderPath)])]
    /\ IF Has(expandedFolders, folderPath)
          THEN /\ expandedFolders' = SetDelete(expandedFolders, folderPath)
               /\ UNCHANGED <<tree, tasks>>
          ELSE /\ tasks' = Append(tasks, Task("toggleFolder", folderPath, expandedFolders,
                                              tree, readDirIpc(folderPath), <<>>, NoRoot))
               /\ UNCHANGED <<tree, expandedFolders>>
    /\ UNCHANGED <<disk, selectedPath, editingNodeId, isCreating, refreshTimeout, clock>>
    /\ StoreOnly

\* toggleFolder: a collapse detaches the children at once; an expansion asks
\* main for the listing and goes on in toggleFolderResume.
toggleFolder(folderPath) ==
    /\ treeObs.ops < MaxTreeOps
    /\ treeObs' = [treeObs EXCEPT !.ops = @ + 1,
                                  !.toggled = Append(@, [path |-> folderPath,
                                        collapse |-> Has(expandedFolders, folderPath)])]
    /\ IF Has(expandedFolders, folderPath)
          THEN /\ tree' = updateTreeChildren(tree, folderPath, Undefined)
               /\ expandedFolders' = SetDelete(expandedFolders, folderPath)
               /\ UNCHANGED tasks
          ELSE /\ tasks' = Append(tasks, Task("toggleFolder", folderPath, expandedFolders,
                                              tree, readDirIpc(folderPath), <<>>, NoRoot))
               /\ UNCHANGED <<tree, expandedFolders>>
    /\ UNCHANGED <<disk, selectedPath, editingNodeId, isCreating, refreshTimeout, clock>>
    /\ StoreOnly

\* toggleFolder after its await: the children go into the tree of now, the
\* expanded set is the one seen before the await plus the folder.
toggleFolderResume(i) ==
    /\ i \in 1..Len(tasks)
    /\ tasks[i].kind = "toggleFolder"
    /\ tasks' = RemoveAt(tasks, i)
    /\ IF tasks[i].answer.ok
          THEN /\ tree' = updateTreeChildren(tree, tasks[i].folderPath,
                                             Some(tasks[i].answer.items))
               /\ expandedFolders' = SetAdd(tasks[i].expandedFolders, tasks[i].folderPath)
          ELSE UNCHANGED <<tree, expandedFolders>>
    /\ UNCHANGED <<disk, selectedPath, editingNodeId, isCreating, refreshTimeout, clock,
                   treeObs>>
    /\ StoreOnly

\* The folders of items that the loop of refreshFolder fetches: those in the
\* expanded set seen when refreshFolder was called.
ExpandedItems(items, expanded) ==
    LET folders == SelectSeq(items, LAMBDA n : n.isFolder /\ Has(expanded, n.path))
    IN  [k \in 1..Len(folders) |-> folders[k].path]

\* refreshFolder up to its first await: the tasks it leaves behind (none when
\* the folder is neither the root nor expanded).
refreshFolder(folderPath, root, expanded, treeSeen, tempId) ==
    IF root = NoRoot THEN <<>>
    ELSE IF replaceBackslashes(folderPath) = replaceBackslashes(root) \/ folderPath = root
         THEN <<Task("refreshFolderRoot", root, expanded, treeSeen, readDirIpc(root),
                     <<>>, tempId)>>
    ELSE IF Has(expanded, folderPath)
         THEN <<Task("refreshFolder", folderPath, expanded, treeSeen,
                     readDirIpc(folderPath), <<>>, tempId)>>
    ELSE <<>>

\* The catch of confirmCreate, entered when the refreshFolder it awaits rejects.
CatchOf(task, t) == IF task.tempId = NoRoot THEN t ELSE removeNodeFromTree(t, task.tempId)

\* The next fetch of a loop over todo, or the end of the action.
NextFetch(task, kind, todo) ==
    IF todo = <<>> THEN <<>>
    ELSE <<[Task(kind, Head(todo), task.expandedFolders, task.tree, readDirIpc(Head(todo)),
                 Tail(todo), task.tempId)
               EXCEPT !.clearSelected = task.clearSelected,
                      !.thenRefresh = task.thenRefresh]>>

\* The children attached to the folder p of a tree, none when there is no
\* such folder or nothing is attached.
ChildrenAt(t, p) ==
    LET at == {n \in AllNodes(t) : n.path = p /\ n.children # Undefined}
    IN  IF at = {} THEN <<>> ELSE (CHOOSE n \in at : TRUE).children[1]

\* The nodes of old, then the nodes of items that old does not have.
MergeInto(old, items) ==
    old \o SelectSeq(items, LAMBDA x : \A k \in 1..Len(old) : old[k].id # x.id)

\* A refreshFolder that adds the entries of the listing to the children the
\* folder has, instead of replacing them.
refreshFolderResumeMerging(i) ==
    LET task == tasks[i]
        newTree == IF ~task.answer.ok THEN CatchOf(task, tree)
                   ELSE IF task.kind = "refreshFolderRoot" THEN MergeInto(tree, task.answer.items)
                   ELSE IF task.kind = "refreshFolderEach"
                        THEN updateTreeChildren(tree, task.folderPath,
                                Some(MergeInto(ChildrenAt(tree, task.folderPath),
                                               task.answer.items)))
                   ELSE updateTreeChildren(task.tree, task.folderPath,
                                Some(MergeInto(ChildrenAt(task.tree, task.folderPath),
                                               task.answer.items)))
        next == IF ~task.answer.ok THEN <<>>
                ELSE IF task.kind = "refreshFolderRoot"
                     THEN NextFetch(task, "refreshFolderEach",
                                    ExpandedItems(task.answer.items, task.expandedFolders))
                ELSE IF task.kind = "refreshFolderEach"
                     THEN NextFetch(task, "refreshFolderEach", task.todo)
                ELSE <<>>
        returned == task.answer.ok /\ next = <<>>
    IN  /\ i \in 1..Len(tasks)
        /\ task.kind \in {"refreshFolderRoot", "refreshFolderEach", "refreshFolder"}
        /\ tree' = newTree
        /\ tasks' = RemoveAt(tasks, i) \o next \o
                    (IF returned /\ task.thenRefresh # NoRoot
                        THEN refreshFolder(task.thenRefresh, rootPath, expandedFolders,
                                           newTree, NoRoot)
                        ELSE <<>>)
        /\ editingNodeId' = IF ~task.answer.ok /\ task.tempId # NoRoot THEN NoRoot
                            ELSE editingNodeId
        /\ isCreating' = IF ~task.answer.ok /\ task.tempId # NoRoot THEN FALSE
                         ELSE isCreating
        /\ selectedPath' = IF returned /\ task.clearSelected THEN NoRoot ELSE selectedPath
        /\ UNCHANGED <<disk, expandedFolders, refreshTimeout, clock, treeObs>>
        /\ StoreOnly

\* refreshFolder after an await; when it returns to deleteItem or moveItem,
\* the rest of that action.
refreshFolderResume(i) ==
    LET task == tasks[i]
        newTree == IF ~task.answer.ok THEN CatchOf(task, tree)
                   ELSE IF task.kind = "refreshFolderRoot" THEN task.answer.items
                   ELSE IF task.kind = "refreshFolderEach"
                        THEN updateTreeChildren(tree, task.folderPath, Some(task.answer.items))
                   ELSE updateTreeChildren(task.tree, task.folderPath, Some(task.answer.items))
        next == IF ~task.answer.ok THEN <<>>
                ELSE IF task.kind = "refreshFolderRoot"
                     THEN NextFetch(task, "refreshFolderEach",
                                    ExpandedItems(task.answer.items, task.expandedFolders))
                ELSE IF task.kind = "refreshFolderEach"
                     THEN NextFetch(task, "refreshFolderEach", task.todo)
                ELSE <<>>
        returned == task.answer.ok /\ next = <<>>
    IN  /\ i \in 1..Len(tasks)
        /\ task.kind \in {"refreshFolderRoot", "refreshFolderEach", "refreshFolder"}
        /\ tree' = newTree
        /\ tasks' = RemoveAt(tasks, i) \o next \o
                    (IF returned /\ task.thenRefresh # NoRoot
                        THEN refreshFolder(task.thenRefresh, rootPath, expandedFolders,
                                           newTree, NoRoot)
                        ELSE <<>>)
        /\ editingNodeId' = IF ~task.answer.ok /\ task.tempId # NoRoot THEN NoRoot
                            ELSE editingNodeId
        /\ isCreating' = IF ~task.answer.ok /\ task.tempId # NoRoot THEN FALSE
                         ELSE isCreating
        /\ selectedPath' = IF returned /\ task.clearSelected THEN NoRoot ELSE selectedPath
        /\ UNCHANGED <<disk, expandedFolders, refreshTimeout, clock, treeObs>>
        /\ StoreOnly

\* handleFsChange with a timer that is left alone when one is pending.
handleFsChangeKeepingTimer(event, changedPath) ==
    LET blocked == editingNodeId # NoRoot \/ hasTempNodes(tree)
    IN  /\ Len(treeObs.notified) < MaxNotifs
        /\ rootPath # NoRoot
        /\ treeObs' = [treeObs EXCEPT !.notified =
                          Append(@, [at |-> clock, path |-> changedPath, blocked |-> blocked])]
        /\ refreshTimeout' = IF blocked \/ refreshTimeout.set THEN refreshTimeout
                             ELSE [set |-> TRUE, due |-> clock + DebounceMs,
                                   changedPath |-> changedPath]
        /\ UNCHANGED <<disk, tree, expandedFolders, selectedPath, editingNodeId, isCreating,
                       tasks, clock>>
        /\ StoreOnly

\* handleFsChange: dropped while a node is edited or created; otherwise the
\* pending timer is cleared and a new one set.
handleFsChange(event, changedPath) ==
    LET blocked == editingNodeId # NoRoot \/ hasTempNodes(tree)
    IN  /\ Len(treeObs.notified) < MaxNotifs
        /\ rootPath # NoRoot
        /\ treeObs' = [treeObs EXCEPT !.notified =
                          Append(@, [at |-> clock, path |-> changedPath, blocked |-> blocked])]
        /\ refreshTimeout' = IF blocked THEN refreshTimeout
                             ELSE [set |-> TRUE, due |-> clock + DebounceMs,
                                   changedPath |-> changedPath]
        /\ UNCHANGED <<disk, tree, expandedFolders, selectedPath, editingNodeId, isCreating,
                       tasks, clock>>
        /\ StoreOnly

\* The callback of the timer: refreshFolder of the parent of the changed path.
TimerFire ==
    LET parentPath == getParentPath(refreshTimeout.changedPath)
    IN  /\ refreshTimeout.set
        /\ clock >= refreshTimeout.due
        /\ refreshTimeout' = [refreshTimeout EXCEPT !.set = FALSE]
        /\ tasks' = tasks \o refreshFolder(parentPath, rootPath, expandedFolders, tree, NoRoot)
        /\ treeObs' = [treeObs EXCEPT !.refreshed =
                          Append(@, [at |-> clock, folderPath |-> parentPath,
                                     seen |-> Len(treeObs.notified)])]
        /\ UNCHANGED <<disk, tree, expandedFolders, selectedPath, editingNodeId, isCreating,
                       clock>>
        /\ StoreOnly

\* Time passes, up to the moment the pending timer is due.
TimePasses ==
    /\ refreshTimeout.set
    /\ clock < refreshTimeout.due
    /\ clock' = clock + TickMs
    /\ UNCHANGED <<disk, tree, expandedFolders, selectedPath, editingNodeId, isCreating,
                   tasks, refreshTimeout, treeObs>>
    /\ StoreOnly

\* The cleaning of startCreateFile and startCreateFolder: ephemeral nodes are
\* dropped from the top of the tree and from the children of the top nodes.
cleanedTreeDeep(t) ==
    LET cleanedTree == SelectSeq(t, LAMBDA n : ~n.isNew)
    IN  [i \in 1..Len(cleanedTree) |->
            IF cleanedTree[i].children # Undefined
               THEN [cleanedTree[i] EXCEPT !.children =
                        Some(SelectSeq(cleanedTree[i].children[1], LAMBDA c : ~c.isNew))]
               ELSE cleanedTree[i]]

\* Date.now() as text.
DateNow == ToString(clock)

\* The common body of startCreateFile and startCreateFolder.
startCreate(parentPath, tempNode) ==
    /\ UserOp
    /\ IF rootPath = NoRoot \/ isCreating
          THEN UNCHANGED <<tree, editingNodeId, selectedPath, isCreating>>
          ELSE /\ tree' = addNodeToTree(cleanedTreeDeep(tree), parentPath, tempNode, rootPath)
               /\ editingNodeId' = tempNode.id
               /\ selectedPath' = tempNode.id
               /\ isCreating' = TRUE
    /\ UNCHANGED <<disk, expandedFolders, tasks, refreshTimeout, clock>>
    /\ StoreOnly

startCreateFile(parentPath) ==
    startCreate(parentPath,
                FileNode(<<"__temp_file_", DateNow>>, <<"untitled.txt">>, FALSE, TRUE))

startCreateFolder(parentPath) ==
    startCreate(parentPath,
                FileNode(<<"__temp_folder_", DateNow>>, <<"New Folder">>, TRUE, TRUE))

\* findNode of confirmCreate: the first node with the id, in depth-first
\* order, and the path of its parent (the root for a top node).
RECURSIVE findNode(_, _, _)
findNode(nodes, id, parentPath) ==
    IF nodes = <<>> THEN <<>>
    ELSE IF Head(nodes).id = id THEN <<[node |-> Head(nodes), parentPath |-> parentPath]>>
    ELSE LET found == findNode(ChildrenOrEmpty(Head(nodes)), id, Head(nodes).path)
         IN  IF found # <<>> THEN found ELSE findNode(Tail(nodes), id, parentPath)

\* confirmCreate up to its await: main creates the file or the folder.
confirmCreate(tempId, name) ==
    LET result == findNode(tree, tempId, rootPath)
        parentPath == result[1].parentPath
        target == join(parentPath, name)
        isFolder == result[1].node.isFolder
        ok == /\ isWithinWorkspace(target)
              /\ IF isFolder THEN CanMkdirP(disk, target) ELSE CanWriteFile(disk, target)
        newDisk == IF isFolder THEN MkdirPOn(disk, target) ELSE WriteFileOn(disk, target, <<>>)
    IN  /\ UserOp
        /\ IF rootPath = NoRoot \/ result = <<>>
              THEN UNCHANGED <<disk, tasks, lastFs>>
              ELSE /\ disk' = IF ok THEN newDisk ELSE disk
                   /\ lastFs' = FsOp(IF isFolder THEN "createFolder" ELSE "createFile",
                                     ~isWithinWorkspace(target),
                                     IF ok THEN Changed(disk, newDisk) ELSE {})
                   /\ tasks' = Append(tasks, Task("confirmCreate", parentPath, <<>>, <<>>,
                                                  [ok |-> ok, items |-> <<>>], <<>>, tempId))
        /\ UNCHANGED <<tree, expandedFolders, selectedPath, editingNodeId, isCreating,
                       refreshTimeout, clock>>
        /\ UNCHANGED <<workspacePath, guardObs, fsCalls, rootPath>>
        /\ UNCHANGED chatVars

\* confirmCreate after its await: the ephemeral node is removed and, when the
\* creation succeeded, refreshFolder of the parent is called.
confirmCreateResume(i) ==
    LET task == tasks[i]
        newTree == removeNodeFromTree(tree, task.tempId)
    IN  /\ i \in 1..Len(tasks)
        /\ task.kind = "confirmCreate"
        /\ tree' = newTree
        /\ editingNodeId' = NoRoot
        /\ isCreating' = FALSE
        /\ tasks' = RemoveAt(tasks, i) \o
                    (IF task.answer.ok
                        THEN refreshFolder(task.folderPath, rootPath, expandedFolders, newTree,
                                           task.tempId)
                        ELSE <<>>)
        /\ UNCHANGED <<disk, expandedFolders, selectedPath, refreshTimeout, clock, treeObs>>
        /\ StoreOnly

\* cancelCreate
cancelCreate(tempId) ==
    /\ UserOp
    /\ tree' = removeNodeFromTree(tree, tempId)
    /\ editingNodeId' = NoRoot
    /\ isCreating' = FALSE
    /\ UNCHANGED <<disk, expandedFolders, selectedPath, tasks, refreshTimeout, clock>>
    /\ StoreOnly

\* startEditing
startEditing(nodeId) ==
    /\ UserOp
    /\ editingNodeId' = nodeId
    /\ UNCHANGED <<disk, tree, expandedFolders, selectedPath, isCreating, tasks,
                   refreshTimeout, clock>>
    /\ StoreOnly

\* stopEditing
stopEditing ==
    /\ UserOp
    /\ editingNodeId' = NoRoot
    /\ UNCHANGED <<disk, tree, expandedFolders, selectedPath, isCreating, tasks,
                   refreshTimeout, clock>>
    /\ StoreOnly

\* isLoading of the workspace store: set by refresh until its finally.
storeIsLoading == \E i \in 1..Len(tasks) : tasks[i].kind \in {"refresh", "refreshEach"}

\* refresh up to its first await.
refresh ==
    /\ UserOp
    /\ IF rootPath = NoRoot THEN UNCHANGED tasks
       ELSE tasks' = Append(tasks, Task("refresh", rootPath, <<>>, <<>>, readDirIpc(rootPath),
                                        <<>>, NoRoot))
    /\ UNCHANGED <<disk, tree, expandedFolders, selectedPath, editingNodeId, isCreating,
                   refreshTimeout, clock>>
    /\ StoreOnly

\* refresh after an await: the top of the tree is replaced, then the children
\* of every expanded folder, in the order of the set.
refreshResume(i) ==
    LET task == tasks[i]
    IN  /\ i \in 1..Len(tasks)
        /\ task.kind \in {"refresh", "refreshEach"}
        /\ IF task.kind = "refresh"
              THEN IF task.answer.ok
                      THEN /\ tree' = task.answer.items
                           /\ tasks' = RemoveAt(tasks, i) \o
                                NextFetch([task EXCEPT !.expandedFolders = expandedFolders],
                                          "refreshEach", expandedFolders)
                           /\ UNCHANGED expandedFolders
                      ELSE /\ tasks' = RemoveAt(tasks, i)
                           /\ UNCHANGED <<tree, expandedFolders>>
              ELSE /\ tasks' = RemoveAt(tasks, i) \o NextFetch(task, "refreshEach", task.todo)
                   /\ IF task.answer.ok
                         THEN /\ tree' = updateTreeChildren(tree, task.folderPath,
                                                            Some(task.answer.items))
                              /\ UNCHANGED expandedFolders
                         ELSE /\ expandedFolders' =
                                    SetDelete(task.expandedFolders, task.folderPath)
                              /\ UNCHANGED tree
        /\ UNCHANGED <<disk, selectedPath, editingNodeId, isCreating, refreshTimeout, clock,
                       treeObs>>
        /\ StoreOnly

\* selectItem
selectItem(path) ==
    /\ UserOp
    /\ selectedPath' = path
    /\ UNCHANGED <<disk, tree, expandedFolders, editingNodeId, isCreating, tasks,
                   refreshTimeout, clock>>
    /\ StoreOnly

\* A store action at the await of its fs call: main has done the operation
\* or thrown, the action waits for the answer.
FsCall(kind, op, folderPath, ok, newDisk, denied, clearSelected, thenRefresh) ==
    /\ UserOp
    /\ disk' = IF ok THEN newDisk ELSE disk
    /\ lastFs' = FsOp(op, denied, IF ok THEN Changed(disk, newDisk) ELSE {})
    /\ tasks' = Append(tasks,
          [Task(kind, folderPath, <<>>, <<>>, [ok |-> ok, items |-> <<>>], <<>>, NoRoot)
              EXCEPT !.clearSelected = clearSelected, !.thenRefresh = thenRefresh])
    /\ UNCHANGED <<tree, expandedFolders, selectedPath, editingNodeId, isCreating,
                   refreshTimeout, clock>>
    /\ UNCHANGED <<workspacePath, guardObs, fsCalls, rootPath>>
    /\ UNCHANGED chatVars

\* renameItem up to its await: fs:rename of main.
renameItem(oldPath, newName) ==
    LET newPath == join(dirname(oldPath), newName)
    IN  FsCall("renameItem", "rename", getParentPath(oldPath),
               isWithinWorkspace(oldPath) /\ CanRename(disk, oldPath, newPath),
               RenameOn(disk, oldPath, newPath), ~isWithinWorkspace(oldPath),
               FALSE, NoRoot)

\* deleteItem up to its await: the selection is read, then fs:delete of main.
deleteItem(targetPath) ==
    FsCall("deleteItem", "delete", getParentPath(targetPath),
           isWithinWorkspace(targetPath), RmOn(disk, targetPath),
           ~isWithinWorkspace(targetPath), selectedPath = targetPath, NoRoot)

\* moveItem up to its await: fs:move of main.
moveItem(sourcePath, destFolder) ==
    LET destPath == join(destFolder, basename(sourcePath))
        within == isWithinWorkspace(sourcePath) /\ isWithinWorkspace(destFolder)
    IN  FsCall("moveItem", "move", getParentPath(sourcePath),
               within /\ CanRename(disk, sourcePath, destPath),
               RenameOn(disk, sourcePath, destPath), ~within, FALSE, destFolder)

\* renameItem, deleteItem and moveItem after the await of the fs call: on a
\* rejection the catch, otherwise refreshFolder of the parent and what follows
\* it.
fsCallResume(i) ==
    LET task == tasks[i]
        first == refreshFolder(task.folderPath, rootPath, expandedFolders, tree, NoRoot)
        carried == [k \in 1..Len(first) |->
                       [first[k] EXCEPT !.clearSelected = task.clearSelected,
                                        !.thenRefresh = task.thenRefresh]]
    IN  /\ i \in 1..Len(tasks)
        /\ task.kind \in {"renameItem", "deleteItem", "moveItem"}
        /\ editingNodeId' = IF task.answer.ok /\ task.kind = "renameItem" THEN NoRoot
                            ELSE editingNodeId
        /\ tasks' = RemoveAt(tasks, i) \o
                    (IF ~task.answer.ok THEN <<>>
                     ELSE IF first # <<>> THEN carried
                     ELSE IF task.thenRefresh # NoRoot
                          THEN refreshFolder(task.thenRefresh, rootPath, expandedFolders,
                                             tree, NoRoot)
                     ELSE <<>>)
        /\ selectedPath' = IF task.answer.ok /\ first = <<>> /\ task.clearSelected
                              THEN NoRoot ELSE selectedPath
        /\ UNCHANGED <<disk, tree, expandedFolders, isCreating, refreshTimeout, clock, treeObs>>
        /\ StoreOnly

\* ----------------------------------------------- workspace store specification

\* The disk under the store.
TreeDisk ==
    (<<"/">> :> Dir)
        @@ (<<"/", "w">> :> Dir)
        @@ (<<"/", "w", "/", "a">> :> Dir)
        @@ (<<"/", "w", "/", "a", "/", "c">> :> Dir)
        @@ (<<"/", "w", "/", "b">> :> Dir)
        @@ (<<"/", "w", "/", "f">> :> File(<<"a">>))

\* The folder the dialog returns.
OpenDirs == {<<"/", "w">>}

\* The paths the watcher reports.
WatchedPaths == {<<"/", "w", "/", "f">>, <<"/", "w", "/", "b", "/", "g">>}

\* The names typed for a new node.
CreateNames == {<<"g">>}

\* The folders shown, the ephemeral one left out.
FolderPaths == {n.path : n \in {m \in AllNodes(tree) : m.isFolder /\ ~m.isNew}}

\* The targets of New File and New Folder.
ParentPaths == {rootPath} \cup FolderPaths

\* The ids of the ephemeral nodes shown.
TempIds == {n.id : n \in {m \in AllNodes(tree) : m.isNew}}

\* The ids of the files shown, which a double click puts in rename mode.
RealIds == {n.id : n \in {m \in AllNodes(tree) : ~m.isNew /\ ~m.isFolder}}

InitTree ==
    /\ workspacePath = NoRoot
    /\ guardObs = [checked |-> FALSE, arg |-> <<>>, res |-> FALSE]
    /\ disk = TreeDisk
    /\ lastFs = NoFsOp
    /\ fsCalls = 0
    /\ InitChat

NextTree ==
    \/ \E dir \in OpenDirs : openFolder(dir)
    \/ \E p \in FolderPaths : toggleFolder(p)
    \/ \E i \in 1..Len(tasks) : toggleFolderResume(i)
    \/ \E i \in 1..Len(tasks) : refreshFolderResume(i)
    \/ \E p \in ParentPaths : startCreateFile(p)
    \/ \E p \in ParentPaths : startCreateFolder(p)
    \/ \E id \in TempIds, n \in CreateNames : confirmCreate(id, n)
    \/ \E i \in 1..Len(tasks) : confirmCreateResume(i)
    \/ \E id \in TempIds : cancelCreate(id)
    \/ ~storeIsLoading /\ refresh
    \/ \E i \in 1..Len(tasks) : refreshResume(i)

SpecTree == InitTree /\ [][NextTree]_vars

\* ------------------------------------------ change notification specification

\* The tree after the folders of expanded were expanded one after the other.
RECURSIVE ExpandedTree(_, _)
ExpandedTree(t, expanded) ==
    IF expanded = <<>> THEN t
    ELSE ExpandedTree(updateTreeChildren(t, Head(expanded),
                                         Some(readDirSafe(TreeDisk, Head(expanded)))),
                      Tail(expanded))

\* The expanded sets the workspace starts with.
StartExpanded == {<<>>, << <<"/", "w", "/", "a">>, <<"/", "w", "/", "b">> >>}

\* The workspace /w is open, with nothing or with two folders expanded, and
\* nothing is in flight.
InitNotify ==
    /\ workspacePath = <<"/", "w">>
    /\ guardObs = [checked |-> FALSE, arg |-> <<>>, res |-> FALSE]
    /\ disk = TreeDisk
    /\ lastFs = NoFsOp
    /\ fsCalls = 0
    /\ rootPath = <<"/", "w">>
    /\ currentWorkspacePath = NoRoot
    /\ isLoading = FALSE
    /\ now = 0
    /\ fullText = <<>>
    /\ messages = <<>>
    /\ pendingEdits = <<>>
    /\ calls = <<>>
    /\ applyLog = <<>>
    /\ toolLog = NoToolCall
    /\ InitText
    /\ expandedFolders \in StartExpanded
    /\ tree = ExpandedTree(readDirSafe(TreeDisk, <<"/", "w">>), expandedFolders)
    /\ selectedPath = NoRoot
    /\ editingNodeId = NoRoot
    /\ isCreating = FALSE
    /\ tasks = <<>>
    /\ refreshTimeout = NoTimer
    /\ clock = 0
    /\ treeObs = NoTreeObs

NextNotify ==
    \/ \E p \in WatchedPaths : handleFsChange("change", p)
    \/ TimerFire
    \/ TimePasses
    \/ \E i \in 1..Len(tasks) : refreshFolderResume(i)
    \/ \E p \in ParentPaths : startCreateFile(p)
    \/ \E id \in TempIds : cancelCreate(id)
    \/ \E id \in RealIds : startEditing(id)
    \/ editingNodeId \in RealIds /\ stopEditing

SpecNotify == InitNotify /\ [][NextNotify]_vars

\* ------------------------------------------------- tree mutation specification

\* The names typed in rename mode.
RenameNames == {<<"g">>}

\* One more call of the user interface fits the bound of this specification.
MutateCall == treeObs.ops < MaxMutateOps

\* Files are selected, created, renamed, deleted and moved, and the tree is
\* refreshed with the button.
NextMutate ==
    \/ MutateCall /\ \E p \in RealIds : selectItem(p)
    \/ MutateCall /\ \E p \in ParentPaths : startCreateFile(p)
    \/ MutateCall /\ \E id \in TempIds, n \in CreateNames : confirmCreate(id, n)
    \/ \E i \in 1..Len(tasks) : confirmCreateResume(i)
    \/ MutateCall /\ \E p \in RealIds, n \in RenameNames : renameItem(p, n)
    \/ MutateCall /\ \E p \in RealIds : deleteItem(p)
    \/ MutateCall /\ \E p \in RealIds, d \in ParentPaths : moveItem(p, d)
    \/ \E i \in 1..Len(tasks) : fsCallResume(i)
    \/ \E i \in 1..Len(tasks) : refreshFolderResume(i)
    \/ MutateCall /\ ~storeIsLoading /\ refresh
    \/ \E i \in 1..Len(tasks) : refreshResume(i)

SpecMutate == InitNotify /\ [][NextMutate]_vars

\* ------------------------------------------------------------------ claims

\* The normal form the path guard is specified over: absolute, separators
\* normalized, case folded.
NormalForm(p) == replaceBackslashes(toLowerCase(resolve(p)))

\* pre is a prefix of s, character by character.
HasPrefix(s, pre) ==
    /\ Len(pre) <= Len(s)
    /\ \A i \in 1..Len(pre) : s[i] = pre[i]

\* p is the root or located beneath it: the root's segments lead p's.
Beneath(p, root) == root # NoRoot /\ IsUnder(NormalForm(p), NormalForm(root))

\* C1: with a root set, isWithinWorkspace returns false for every path that is
\* neither the root nor beneath it, a sibling whose name begins with the
\* root's name and paths leaving through '..' included.
C1_RejectsEverythingOutside ==
    (guardObs.checked /\ workspacePath # NoRoot /\ ~Beneath(guardObs.arg, workspacePath))
        => guardObs.res = FALSE

\* C2: isWithinWorkspace is false whenever no root is set, and with a root set
\* it is true exactly when the normalized path has the normalized root as a
\* prefix.
C2_GuardIsPrefixOfNormalForms ==
    guardObs.checked =>
        (guardObs.res <=>
            (workspacePath # NoRoot
                /\ HasPrefix(NormalForm(guardObs.arg), NormalForm(workspacePath))))

\* C2 witness: a path accepted only through case folding.
C2_Witness ==
    /\ guardObs.checked
    /\ guardObs.res
    /\ workspacePath # NoRoot
    /\ ~HasPrefix(resolve(guardObs.arg), resolve(workspacePath))

\* C5: no fs:* handler reads, creates, removes or writes a path outside the
\* current root.
C5_FsHandlersStayInRoot ==
    \A q \in lastFs.touched :
        lastFs.root # NoRoot /\ IsUnder(q, resolve(lastFs.root))

\* A path is outside the root: there is no root, or the resolved path is
\* neither the root nor beneath it.
Outside(p, root) == root = NoRoot \/ ~IsUnder(resolve(p), resolve(root))

\* C3: a tool call whose path resolves outside the current root reads nothing
\* and answers with an access-denied text.
C3_ToolsDenyOutsideRoot ==
    (toolLog.tool # None /\ Outside(toolLog.fullPath, toolLog.root))
        => (toolLog.read = {} /\ toolLog.result = "denied")

\* C4: an Accept whose target is outside the root at commit time creates no
\* directory and writes no file.
C4_AcceptRevalidatesTarget ==
    \A i \in 1..Len(applyLog) :
        Outside(applyLog[i].path, applyLog[i].root)
            => (~applyLog[i].success /\ applyLog[i].made = {})

\* C6: no edit id is written to disk more than once, however Accept and
\* Reject are repeated on it.
C6_OneWritePerEdit ==
    \A i, j \in 1..Len(applyLog) :
        (i < j /\ applyLog[i].editId = applyLog[j].editId)
            => ~(applyLog[i].success /\ applyLog[j].success)

\* C7: the content of a rejected entry is never written: no successful write
\* belongs to an edit whose ledger status is rejected.
C7_RejectedNeverWritten ==
    \A i \in 1..Len(applyLog) :
        (applyLog[i].success /\ HasPendingEdit(pendingEdits, applyLog[i].editId))
            => getPendingEdit(pendingEdits, applyLog[i].editId).status # "rejected"

\* C8: every write of an Accept found the target as it was when the edit was
\* proposed.
C8_AcceptVerifiesUnchanged ==
    \A i \in 1..Len(applyLog) :
        applyLog[i].success => applyLog[i].before = applyLog[i].base

\* Some write of the edit id succeeded.
Written(id) ==
    \E i \in 1..Len(applyLog) : applyLog[i].editId = id /\ applyLog[i].success

\* C9: an edit whose Accept failed, and of which no Accept succeeded, is not
\* applied: unless the user rejected it, it is still pending and Accept is
\* still offered.
C9_FailedAcceptStaysPending ==
    \A i \in 1..Len(applyLog) :
        LET id == applyLog[i].editId
        IN  (~applyLog[i].success /\ ~Written(id) /\ HasPendingEdit(pendingEdits, id))
                => /\ getPendingEdit(pendingEdits, id).status # "applied"
                   /\ (getPendingEdit(pendingEdits, id).status # "rejected"
                          => getPendingEdit(pendingEdits, id).status = "pending")

\* A failed Accept has answered, the edit is still pending, and a second
\* Accept of it has tried the write again.
C9_Witness ==
    /\ calls = <<>>
    /\ \E i, j \in 1..Len(applyLog) :
          /\ i < j
          /\ applyLog[i].editId = applyLog[j].editId
          /\ ~applyLog[i].success /\ ~applyLog[j].success
          /\ HasPendingEdit(pendingEdits, applyLog[i].editId)
          /\ getPendingEdit(pendingEdits, applyLog[i].editId).status = "pending"

\* C10: as long as no Accept has run, the disk is the disk the run began
\* with, whatever tools were invoked.
C10_ToolsNeverWrite == applyLog = <<>> => disk = InitDisk

\* Two proposals were made, one by each proposing tool, and no Accept ran.
C10_Witness ==
    /\ applyLog = <<>>
    /\ Len(fullText) = 2
    /\ fullText[1].type # fullText[2].type
    /\ toolLog.result = "proposal"

\* An Accept of a proposal for the resolved path rp was clicked.
AcceptClicked(rp) ==
    \/ \E i \in 1..Len(calls) : resolve(calls[i].path) = rp
    \/ \E i \in 1..Len(applyLog) : applyLog[i].path = rp

ReplaceFirstLiteral(s, old, new) ==
    IF \E i \in 1..(Len(s) - Len(old) + 1) : SubSeq(s, i, i + Len(old) - 1) = old
        THEN LET at == CHOOSE i \in 1..(Len(s) - Len(old) + 1) :
                          /\ SubSeq(s, i, i + Len(old) - 1) = old
                          /\ \A j \in 1..(i - 1) : SubSeq(s, j, j + Len(old) - 1) # old
             IN  SubSeq(s, 1, at - 1) \o new \o SubSeq(s, at + Len(old), Len(s))
    ELSE s

RECURSIVE LiteralEdits(_, _)
\* The edits applied in list order, each to the result of the ones before.
LiteralEdits(edits, s) ==
    IF edits = <<>> THEN s
    ELSE LiteralEdits(Tail(edits),
                      ReplaceFirstLiteral(s, Head(edits).old_text, Head(edits).new_text))

\* The step is a call of edit_file.
EditFileStep ==
    /\ toolLog'.tool = "edit_file"
    /\ (toolLog' # toolLog \/ fullText' # fullText)

RECURSIVE LiteralCount(_, _)
\* Number of the edits that find their old_text, each looked for in the
\* result of the ones before.
LiteralCount(edits, s) ==
    IF edits = <<>> THEN 0
    ELSE (IF ReplaceFirstLiteral(s, Head(edits).old_text, <<"!">>) # s
             \/ Head(edits).old_text = <<>> THEN 1 ELSE 0)
         + LiteralCount(Tail(edits),
                        ReplaceFirstLiteral(s, Head(edits).old_text, Head(edits).new_text))

\* C13: edit_file applies its edits in list order to a running copy of the
\* content: each edit whose old_text occurs replaces the first occurrence by
\* new_text taken character for character, an edit whose old_text does not
\* occur changes nothing, later edits see the earlier ones, and the count is
\* the number of edits that matched.
C13_EditsAreLiteral ==
    editObs.ran =>
        /\ editObs.newContent = LiteralEdits(editObs.edits, editObs.content)
        /\ editObs.editCount = LiteralCount(editObs.edits, editObs.content)

\* The ids of a decoded list.
IdsOf(list) == {list[i].id : i \in 1..Len(list)}

\* No two payloads of a decoded list carry the same id.
NoTwoWithOneId(list) == \A i, j \in 1..Len(list) : list[i].id = list[j].id => i = j

C17_LedgerHasOneEntryPerId ==
    /\ [](/\ NoTwoWithOneId(pendingEdits)
          /\ \A m \in 1..Len(messages) : \A k \in 1..Len(messages[m]) :
                HasPendingEdit(pendingEdits, messages[m][k].id))
    /\ [][messages' # messages
            => /\ Len(pendingEdits') >= Len(pendingEdits)
               /\ SubSeq(pendingEdits', 1, Len(pendingEdits)) = pendingEdits]_vars

\* A message was decoded a second time, after its first proposal had been
\* applied and a second proposal had arrived.
C17_Witness ==
    /\ isLoading
    /\ Len(fullText) = 2
    /\ messages[Len(messages)] = fullText
    /\ Len(pendingEdits) = 2
    /\ pendingEdits[1].status = "applied"
    /\ pendingEdits[2].status = "pending"

\* C18: any two proposals made by the tools carry different ids.
C18_ProposalIdsDiffer == NoTwoWithOneId(fullText)

\* The ids of tool_use blocks, and of tool results.
UseIds(blocks) == [i \in 1..Len(blocks) |-> blocks[i].id]
ResultIds(results) == [i \in 1..Len(results) |-> results[i].tool_use_id]

\* The text a failed invocation comes back as.
IsFailureText(content) ==
    /\ content # <<>>
    /\ content[1] \in {"Error", "Unknown tool: ", "No matches found in "}

\* In a list of provider messages every assistant message with tool_use
\* blocks is followed by a message with one result per block, in order, and
\* the result of a failed invocation is a text that says so.
EveryUseAnswered(msgs) ==
    \A i \in 1..Len(msgs) :
        msgs[i].toolUses # <<>> =>
            /\ i < Len(msgs)
            /\ ResultIds(msgs[i + 1].toolResults) = UseIds(msgs[i].toolUses)
            /\ \A k \in 1..Len(msgs[i + 1].toolResults) :
                  LET r == msgs[i + 1].toolResults[k]
                  IN  /\ r.content # <<>>
                      /\ r.outcome # "ok" => IsFailureText(r.content)

\* C14: a tool that fails never ends the tool loop. Every request to the
\* provider answers each tool_use block with one tool result, the result of
\* a failed invocation being a text; while a response is worked on, the
\* results so far and the blocks still to run make up the blocks of the
\* response; and the step that finishes an invocation, failed or not, leaves
\* the run going: at the next block, or at the next call of the provider.
C14_ToolFailureIsAResult ==
    /\ [](/\ EveryUseAnswered(request)
          /\ EveryUseAnswered(sendRun.apiMessages)
          /\ sendRun.pc \in {"tools", "await"} =>
                ResultIds(sendRun.toolResults) \o UseIds(sendRun.blocks)
                    = UseIds(sendRun.assistantContent.toolUses))
    /\ [][sendRun.pc = "await" =>
             /\ sendRun'.pc = IF Len(sendRun.blocks) > 1 THEN "tools" ELSE "call"
             /\ sendRun'.stop = None
             /\ isLoading']_vars

\* C14 witness: a request to the provider that carries the results of a
\* response of two blocks, the first of which has failed.
C14_Witness ==
    \E i \in 1..Len(request) :
        /\ Len(request[i].toolResults) = 2
        /\ request[i].toolResults[1].outcome # "ok"
        /\ request[i].toolResults[2].outcome = "ok"

\* C15: the final status sent for an invocation that failed (a disk error,
\* a tool that does not exist, an edit_file without a match) is error.
C15_FailureHasErrorStatus ==
    \A k \in 1..Len(sendRun.toolResults) :
        sendRun.toolResults[k].outcome # "ok" => sendRun.toolResults[k].status = "error"

\* The statuses shown for a message.
ShownStatuses(msg) == parseMessageContent(msg.text).toolStatuses

\* C19: the statuses decoded from a message hold one record for an id, and
\* once the tool loop has ended with end_turn none of the statuses shown for
\* the message of the run is running.
C19_OneFinalStatusPerId ==
    LET shown == ShownStatuses(sessionMessages[Len(sessionMessages)])
    IN  /\ \A i, j \in 1..Len(shown) : shown[i].id = shown[j].id => i = j
        /\ sendRun.pc = "idle" /\ sendRun.stop = "end_turn" =>
              \A i \in 1..Len(shown) : shown[i].status # "running"

\* A text that holds the opening of a marker.
HasMarker(text) == \E i \in 1..Len(text) : text[i] \in {DiffOpen, StatusOpen}

\* C20: no message of a request to the provider, be it of the running turn
\* or of the history of the conversation, holds a [DIFF_BLOCK] or a
\* [TOOL_STATUS] marker, in its text or in a tool result.
C20_NoMarkerInRequest ==
    \A i \in 1..Len(request) :
        /\ ~HasMarker(request[i].content)
        /\ \A k \in 1..Len(request[i].toolResults) :
              ~HasMarker(request[i].toolResults[k].content)

\* The tool result of a proposal: the acknowledgment, with no marker and
\* without the proposed content.
IsAcknowledgment(use, r) ==
    /\ r.tool_use_id = use.id
    /\ r.content = EditProposedText
    /\ ~HasMarker(r.content)
    /\ ~includes(r.content, use.input.content)

\* The text holds the whole marker of the proposal of a write_file block:
\* a piece from an opening to a closing delimiter that decodes to the one
\* proposal with the path and the content of the block.
ShowsProposal(text, use) ==
    \E a \in 1..Len(text) : \E b \in a..Len(text) :
        /\ text[a] = DiffOpen
        /\ text[b] = DiffClose
        /\ \A m \in (a + 1)..(b - 1) : text[m] \notin {DiffOpen, DiffClose}
        /\ LET edits == parseMessageContent(SubSeq(text, a, b)).edits
           IN  /\ Len(edits) = 1
               /\ edits[1].type = "write"
               /\ edits[1].relativePath = use.input.path
               /\ edits[1].newContent = use.input.content

\* C21: when a tool call ends in a proposal (here: every write_file), the
\* text sent to the UI and kept in the message of the run holds the marker
\* of the proposal with the proposed content, and the tool result kept for
\* the provider, and later sent to it, is the acknowledgment only.
C21_ProviderGetsAcknowledgment ==
    /\ \A k \in 1..Len(sendRun.toolResults) :
          LET use == sendRun.assistantContent.toolUses[k]
          IN  use.name = "write_file" =>
                /\ IsAcknowledgment(use, sendRun.toolResults[k])
                /\ ShowsProposal(sendRun.fullText, use)
                /\ ShowsProposal(sessionMessages[Len(sessionMessages)].text, use)
    /\ \A i \in 1..Len(request) : \A k \in 1..Len(request[i].toolUses) :
          request[i].toolUses[k].name = "write_file" =>
              IsAcknowledgment(request[i].toolUses[k], request[i + 1].toolResults[k])

\* C21 witness: a request to the provider that answers a write_file block.
C21_Witness ==
    \E i \in 1..Len(request) : \E k \in 1..Len(request[i].toolUses) :
        /\ request[i].toolUses[k].name = "write_file"
        /\ request[i + 1].toolResults[k].content = EditProposedText
        /\ ShowsProposal(sessionMessages[Len(sessionMessages)].text, request[i].toolUses[k])

\* A step in which the provider is called: every step of a run that is at
\* its call is the answer of the provider.
ProviderCalled == sendRun.pc = "call" /\ sendRun' # sendRun

\* A maximum of iterations somebody could configure: the number of tool
\* rounds the provider asks for in the model.
MaxIterations == MaxToolRounds

\* C22: the tool loop has a maximum of iterations; a run that has gone
\* through that many rounds of tools does not call the provider again.
C22_LoopStopsAtMaximum ==
    [][ProviderCalled => sendRun.rounds < MaxIterations]_vars

\* The message of the session with an id.
MessageOf(msgs, id) == CHOOSE m \in {msgs[i] : i \in 1..Len(msgs)} : m.id = id

\* C23: a provider call that fails ends the run at that call. In the step of
\* the failure the run goes idle, the message of the run becomes an error
\* turn with the text of the failure, and the loading state ends; and a run
\* that has failed makes no further step: the next request to the provider
\* and the next tool are those of a new run, started by a new message.
C23_ProviderFailureEndsRun ==
    /\ [][sendRun.pc = "call" /\ sendRun'.stop = "error" =>
             /\ sendRun'.pc = "idle"
             /\ sendRun'.blocks = <<>>
             /\ ~isLoading'
             /\ MessageOf(sessionMessages', sendRun.msgId).isError
             /\ MessageOf(sessionMessages', sendRun.msgId).text = ErrorTurnText
             /\ MessageOf(sessionMessages', sendRun.msgId).role = "model"]_vars
    /\ [][sendRun.stop = "error" =>
             /\ request' = request
             /\ \/ sendRun' = sendRun
                \/ /\ sendRun'.pc = "call"
                   /\ sendRun'.rounds = 0
                   /\ sendRun'.msgId # sendRun.msgId]_vars

\* C23 witness: a run has failed at the call that followed a round of tools.
C23_Witness ==
    /\ sendRun.stop = "error"
    /\ ~isLoading
    /\ \E i \in 1..Len(request) : request[i].toolResults # <<>>
    /\ MessageOf(sessionMessages, sendRun.msgId).text = ErrorTurnText

\* The first of the three status words in a text.
FirstStatusWord(text) ==
    LET words == {j \in 1..Len(text) : text[j] \in {"running", "success", "error"}}
    IN  IF words = {} THEN None
        ELSE text[CHOOSE j \in words : \A k \in words : j <= k]

\* The status markers of a text as they were written, in order: the id of
\* the tool_use block and the status, read from the raw text.
EmittedStatuses(text) ==
    LET starts == SelectSeq([i \in 1..Len(text) |-> i],
                            LAMBDA i : text[i] = StatusOpen /\ i + 4 <= Len(text))
    IN  [k \in 1..Len(starts) |->
            [id |-> text[starts[k] + 4],
             status |-> FirstStatusWord(SubSeq(text, starts[k] + 1, Len(text)))]]

RECURSIVE UsesOf(_)
\* The ids of the tool_use blocks of the assistant messages of a list.
UsesOf(msgs) ==
    IF msgs = <<>> THEN <<>> ELSE UseIds(Head(msgs).toolUses) \o UsesOf(Tail(msgs))

\* C29: the tool calls of a response are worked on one at a time, in the
\* order of the response. The status markers written to the text of a run
\* come in pairs, running and then success or error for the same id, the
\* pairs in the order of the tool_use blocks; a running marker without its
\* partner is there exactly while that one tool is executing, and the status
\* of each pair is the one of the result of that call.
C29_ToolCallsOneAtATime ==
    LET emitted == EmittedStatuses(sendRun.fullText)
        results == IF sendRun.pc \in {"tools", "await"} THEN sendRun.toolResults ELSE <<>>
        done == UsesOf(sendRun.apiMessages) \o ResultIds(results)
        started == IF sendRun.pc = "await" THEN done \o <<Head(sendRun.blocks).id>> ELSE done
    IN  sendRun.pc # "idle" =>
          /\ Len(emitted) = Len(done) + Len(started)
          /\ \A j \in 1..Len(started) : /\ emitted[2 * j - 1].id = started[j]
                                        /\ emitted[2 * j - 1].status = "running"
          /\ \A j \in 1..Len(done) : /\ emitted[2 * j].id = done[j]
                                     /\ emitted[2 * j].status \in {"success", "error"}
          /\ \A k \in 1..Len(results) :
                emitted[2 * (Len(UsesOf(sendRun.apiMessages)) + k)].status
                    = results[k].status
          /\ sendRun.pc \in {"tools", "await"} =>
                done \o UseIds(sendRun.blocks)
                    = UsesOf(sendRun.apiMessages) \o UseIds(sendRun.assistantContent.toolUses)

\* C29 witness: the second tool of a response is executing; the first one
\* has its two markers, the second one its running marker only.
C29_Witness ==
    /\ sendRun.pc = "await"
    /\ Len(sendRun.toolResults) = 1
    /\ Len(EmittedStatuses(sendRun.fullText)) = 3
    /\ EmittedStatuses(sendRun.fullText)[3] = [id |-> "t2", status |-> "running"]

\* One list of messages is the beginning of another.
IsPrefix(a, b) == Len(a) <= Len(b) /\ SubSeq(b, 1, Len(a)) = a

\* C30: within a run the conversation sent to the provider only grows. The
\* list of a call that follows a round of tools is the list of the call
\* before, then one assistant message with the tool_use blocks of the
\* response, then one user message with one result for each block, with the
\* id of the block, in the order of the blocks; and while a run lasts, the
\* list it keeps is never changed except at its end.
C30_ConversationIsAppendOnly ==
    /\ [][ProviderCalled /\ sendRun.rounds > 0 =>
             /\ Len(request') = Len(request) + 2
             /\ IsPrefix(request, request')
             /\ request'[Len(request) + 1].role = "assistant"
             /\ request'[Len(request) + 1].toolUses = sendRun.assistantContent.toolUses
             /\ request'[Len(request) + 1].toolUses # <<>>
             /\ request'[Len(request) + 1].toolResults = <<>>
             /\ request'[Len(request) + 2].role = "user"
             /\ request'[Len(request) + 2].toolUses = <<>>
             /\ ResultIds(request'[Len(request) + 2].toolResults)
                   = UseIds(sendRun.assistantContent.toolUses)]_vars
    /\ [][sendRun.pc # "idle" /\ sendRun'.pc # "idle" =>
             IsPrefix(sendRun.apiMessages, sendRun'.apiMessages)]_vars

\* C30 witness: the second request of a run, after a response of two blocks.
C30_Witness ==
    /\ sendRun.stop = "end_turn"
    /\ Len(request) > 2
    /\ Len(request[Len(request)].toolResults) = 2
    /\ request[Len(request) - 1].role = "assistant"

\* A node is being created or renamed.
EditInProgress == editingNodeId # NoRoot \/ \E n \in AllNodes(tree) : n.isNew

\* C24: while a node is in creation or being edited, a step that is not a
\* call of the user interface (a notification, the debounce timer, a refresh
\* it started) leaves the tree alone and neither starts nor completes a fetch.
C24_NoRefreshDuringEdit ==
    [][(EditInProgress /\ treeObs'.ops = treeObs.ops) => (tree' = tree /\ tasks' = tasks)]_vars

\* The notifications that were not dropped.
Accepted == {k \in 1..Len(treeObs.notified) : ~treeObs.notified[k].blocked}

\* The notification whose timer issued the refresh r: the last one accepted
\* before the timer ran.
Trigger(r) ==
    IF \E k \in Accepted : k <= r.seen
       THEN CHOOSE k \in Accepted : k <= r.seen /\ \A m \in Accepted : m <= r.seen => m <= k
       ELSE 0

\* Two accepted notifications for paths of one folder, the second less than
\* the debounce delay after the first.
SameWindow(i, j) ==
    /\ i \in Accepted
    /\ j \in Accepted
    /\ i < j
    /\ getParentPath(treeObs.notified[i].path) = getParentPath(treeObs.notified[j].path)
    /\ treeObs.notified[j].at - treeObs.notified[i].at < DebounceMs

\* The refreshes issued for notification i or j.
RefreshesFor(i, j) == {k \in 1..Len(treeObs.refreshed) : Trigger(treeObs.refreshed[k]) \in {i, j}}

\* C25: two notifications for one folder inside one debounce window give at
\* most one call of refreshFolder, for that folder, DebounceMs after the later
\* one; and exactly one once that moment has come (no further notification
\* having set the timer anew).
C25_OneRefreshPerWindow ==
    \A i, j \in 1..Len(treeObs.notified) :
        SameWindow(i, j) =>
            /\ Cardinality(RefreshesFor(i, j)) <= 1
            /\ \A k \in RefreshesFor(i, j) :
                /\ Trigger(treeObs.refreshed[k]) = j
                /\ treeObs.refreshed[k].at = treeObs.notified[j].at + DebounceMs
                /\ treeObs.refreshed[k].folderPath = getParentPath(treeObs.notified[j].path)
            /\ (~refreshTimeout.set /\ \A m \in Accepted : m <= j)
                    => Cardinality(RefreshesFor(i, j)) = 1

\* Two notifications for /w came in one window, one refresh was issued and its
\* fetch of /w is in flight.
C25_Witness ==
    /\ \E i, j \in 1..Len(treeObs.notified) :
            SameWindow(i, j) /\ treeObs.notified[j].at > treeObs.notified[i].at
    /\ Len(treeObs.refreshed) = 1
    /\ \E k \in 1..Len(tasks) : tasks[k].kind = "refreshFolderRoot"

\* The number of ephemeral nodes in a tree, the attached children included.
RECURSIVE CountNew(_)
CountNew(t) ==
    IF t = <<>> THEN 0
    ELSE (IF Head(t).isNew THEN 1 ELSE 0) + CountNew(ChildrenOrEmpty(Head(t)))
            + CountNew(Tail(t))

\* C26: at every moment the tree holds at most one ephemeral node.  (The
\* second half of the claim, that a start of creation during a pending one
\* changes nothing, is the guard on isCreating in startCreate.)
C26_AtMostOneEphemeral == CountNew(tree) <= 1

\* Nothing is in flight and no creation is pending.
Quiescent == tasks = <<>> /\ CountNew(tree) = 0

\* C27: in a quiescent state a folder of the tree has children attached if
\* and only if its path is in the expanded set.
C27_ChildrenIffExpanded ==
    Quiescent =>
        \A n \in AllNodes(tree) :
            n.isFolder => (n.children # Undefined <=> Has(expandedFolders, n.path))

\* The nodes of the tree with path p, and the paths of all nodes of a tree.
NodesAt(t, p) == {n \in AllNodes(t) : n.path = p}
PathsOf(t) == {n.path : n \in AllNodes(t)}

\* The nodes attached below the folder p.
Below(t, p) == UNION {AllNodes(ChildrenOrEmpty(n)) : n \in NodesAt(t, p)}

\* An expansion of the folder of task i completes with the listing that the
\* disk still gives.
ExpansionCompletes(i) ==
    /\ toggleFolderResume(i)
    /\ tasks[i].answer.ok
    /\ tasks[i].answer.items = readDirSafe(disk, tasks[i].folderPath)

\* C28: an expansion that completes attaches to F the listing of F on the
\* disk, so that expanding, collapsing and expanding again on an unchanged
\* disk gives the same children; a collapse touches neither main nor the disk,
\* starts no fetch, leaves F without children and every node outside F in place.
C28_CollapseDetachesExpandRestores ==
    [][/\ \A i \in 1..Len(tasks) :
            ExpansionCompletes(i) =>
                \A n \in NodesAt(tree', tasks[i].folderPath) :
                    n.children = Some(readDirSafe(disk, tasks[i].folderPath))
       /\ \A p \in FolderPaths :
            (toggleFolder(p) /\ Has(expandedFolders, p)) =>
                /\ disk' = disk
                /\ lastFs' = lastFs
                /\ tasks' = tasks
                /\ \A n \in NodesAt(tree', p) : n.children = Undefined
                /\ PathsOf(tree') = PathsOf(tree) \ {n.path : n \in Below(tree, p)}
                /\ ~Has(expandedFolders', p)]_vars

\* /w/a was expanded, collapsed and expanded again, nothing is in flight and
\* /w/a shows the listing of the disk.
C28_Witness ==
    LET a == <<"/", "w", "/", "a">>
    IN  /\ treeObs.toggled = <<[path |-> a, collapse |-> FALSE],
                               [path |-> a, collapse |-> TRUE],
                               [path |-> a, collapse |-> FALSE]>>
        /\ tasks = <<>>
        /\ Has(expandedFolders, a)
        /\ NodesAt(tree, a) # {}
        /\ \A n \in NodesAt(tree, a) :
                n.children = Some(readDirSafe(disk, a)) /\ n.children[1] # <<>>


\* The first place at or after from where seg stands in text, 0 when none.
IndexFrom(text, seg, from) ==
    LET at == {p \in from..(Len(text) - Len(seg) + 1) : SubSeq(text, p, p + Len(seg) - 1) = seg}
    IN  IF at = {} THEN 0 ELSE CHOOSE p \in at : \A q \in at : p <= q

RECURSIVE ContainsInOrder(_, _, _)
\* The segments stand in text one after the other, from the place from on.
ContainsInOrder(segs, text, from) ==
    IF segs = <<>> THEN TRUE
    ELSE LET at == IndexFrom(text, Head(segs), from)
         IN  at > 0 /\ ContainsInOrder(Tail(segs), text, at + Len(Head(segs)))

\* The run has returned without an error of the provider.
RunReturned == sendRun.pc = "idle" /\ sendRun.stop \in {"end_turn", "other"}

\* C31: when the tool loop has stopped without a provider error, the text
\* last sent to the UI (the text of the message of the run) is the text the
\* handler returns, and that text holds the text block of every response of
\* the run, in the order of the responses.
C31_ReturnedTextIsComplete ==
    RunReturned =>
        /\ sessionMessages[Len(sessionMessages)].text = sendRun.fullText
        /\ ContainsInOrder(sendRun.received, sendRun.fullText, 1)


\* C32: a successful ai:applyEdit makes the workspace store receive a change
\* notification for the path that was written.
C32_AcceptNotifiesTheStore ==
    [][(Len(applyLog') = Len(applyLog) + 1 /\ applyLog'[Len(applyLog')].success) =>
          /\ Len(treeObs'.notified) = Len(treeObs.notified) + 1
          /\ resolve(treeObs'.notified[Len(treeObs'.notified)].path)
                = applyLog'[Len(applyLog')].path]_vars


\* The nodes of a list as a listing gives them: no ephemeral node, and
\* nothing attached below.
Listed(nodes) ==
    LET real == SelectSeq(nodes, LAMBDA n : ~n.isNew)
    IN  [k \in 1..Len(real) |-> [real[k] EXCEPT !.children = Undefined]]

\* The folder p is loaded and shows what the disk holds in it.
ShowsFresh(p) ==
    IF p = rootPath THEN Listed(tree) = readDirSafe(disk, p)
    ELSE \A n \in NodesAt(tree, p) :
            n.children # Undefined => Listed(n.children[1]) = readDirSafe(disk, p)

\* The paths of the files and folders of a tree, the ephemeral ones left out.
RealPaths(t) == {n.path : n \in {m \in AllNodes(t) : ~m.isNew}}

\* A create, rename, delete or move is at the await of its fs call.
FsCallKinds == {"confirmCreate", "renameItem", "deleteItem", "moveItem"}

\* C33: create, rename, delete and move leave the tree alone until main has
\* answered; a failed operation adds, removes and renames no real node; and
\* once a successful operation and the refreshes it started are over, every
\* loaded folder that holds a path the operation touched shows the listing of
\* that folder.
C33_MutationsRefreshParents ==
    /\ [][(Len(tasks') = Len(tasks) + 1 /\ tasks'[Len(tasks')].kind \in FsCallKinds)
             => tree' = tree]_vars
    /\ [][\A i \in 1..Len(tasks) :
             (tasks[i].kind \in FsCallKinds /\ ~tasks[i].answer.ok
                 /\ (fsCallResume(i) \/ confirmCreateResume(i)))
             => RealPaths(tree') = RealPaths(tree)]_vars
    /\ [](tasks = <<>> =>
             \A q \in lastFs.touched : Exists(disk, getParentPath(q)) =>
                 ShowsFresh(getParentPath(q)))


\* The kinds of the fetches of a refresh, of the root and of a folder below.
RootFetchKinds == {"refreshFolderRoot", "refresh"}
FolderFetchKinds == {"refreshFolder", "refreshFolderEach", "refreshEach"}

\* The fetch of task i completes with a listing.
FetchCompletes(i) ==
    /\ tasks[i].kind \in RootFetchKinds \cup FolderFetchKinds
    /\ tasks[i].answer.ok
    /\ refreshFolderResume(i) \/ refreshResume(i)

\* C34: the completion of a refresh fetch for a folder writes the listing it
\* delivers as the whole children array of that folder, whatever the children
\* were; so of two fetches for one folder that are in flight together, the
\* one that completes later decides the children, and no array is a mix of
\* the two listings.
C34_LaterFetchWinsWhole ==
    [][\A i \in 1..Len(tasks) : FetchCompletes(i) =>
          IF tasks[i].kind \in RootFetchKinds THEN tree' = tasks[i].answer.items
          ELSE \A n \in NodesAt(tree', tasks[i].folderPath) :
                  n.children = Some(tasks[i].answer.items)]_vars

\* C34 witness: of two fetches for one folder that were in flight together,
\* the one asked for after the disk had changed has completed and the folder
\* shows its listing, which is not the one the workspace started with; the
\* other one is still in flight with the older listing.
C34_Witness ==
    \E i \in 1..Len(tasks) :
        LET p == tasks[i].folderPath
            shown == IF p = rootPath THEN Listed(tree) ELSE Listed(ChildrenAt(tree, p))
        IN  /\ tasks[i].kind \in RootFetchKinds \cup FolderFetchKinds
            /\ tasks[i].answer.ok
            /\ p = rootPath \/ \E n \in NodesAt(tree, p) : n.children # Undefined
            /\ shown = readDirSafe(disk, p)
            /\ shown # readDirSafe(TreeDisk, p)
            /\ tasks[i].answer.items # shown


\* C35: isCreating is set if and only if the tree holds exactly one ephemeral
\* node and that node is the one in edit mode.
C35_CreatingIffOneEphemeral ==
    isCreating <=>
        /\ CountNew(tree) = 1
        /\ \E n \in AllNodes(tree) : n.isNew /\ editingNodeId = n.id


\* C36: once no debounce timer is pending, every notification that was not
\* dropped has been followed by a refresh of the parent folder of its own path.
C36_EveryNotificationRefreshesItsFolder ==
    ~refreshTimeout.set =>
        \A k \in Accepted :
            \E j \in 1..Len(treeObs.refreshed) :
                /\ treeObs.refreshed[j].seen >= k
                /\ treeObs.refreshed[j].folderPath = getParentPath(treeObs.notified[k].path)


\* The directory the tools resolve a relative path against: the root kept by
\* ai:sendMessage, or the working directory of the process when none is kept.
ToolDirectory == IF currentWorkspacePath # NoRoot THEN resolve(currentWorkspacePath) ELSE Cwd

\* The root the path guard enforced when the last tool ran.
GuardDirectory == IF toolLog.root = NoRoot THEN NoRoot ELSE resolve(toolLog.root)

\* C37: whenever a tool has run, the directory it resolved its path against
\* is the root the path guard enforces; in particular it is not the working
\* directory of the process.
C37_ToolsResolveAgainstGuardRoot ==
    toolLog.tool # None => ToolDirectory = GuardDirectory


\* The tool loop finishes the tool_use block it was executing.
BlockFinished ==
    /\ sendRun.pc = "await"
    /\ sendRun'.pc # "await"
    /\ Len(sendRun'.toolResults) = Len(sendRun.toolResults) + 1

\* C38: the text a read_file or list_directory returns, whatever the file
\* holds, goes to the provider as it is, and what the loop adds to the text of
\* the UI for that block holds no proposal marker.
C38_OnlyWriteToolsPropose ==
    [][(BlockFinished /\ Head(sendRun.blocks).name \in {"read_file", "list_directory"}) =>
          LET block == Head(sendRun.blocks)
              added == SubSeq(sendRun'.fullText, Len(sendRun.fullText) + 1,
                              Len(sendRun'.fullText))
          IN  /\ sendRun'.toolResults[Len(sendRun'.toolResults)].content
                    = executeAITool(block.name, block.input)
              /\ ~includesDiffBlock(added)]_vars


\* A message typed by the user, as a turn of a request.
TypedTurn(m) == m.role = "user" /\ m.toolResults = <<>>

\* C39: in a request sent to the provider no two user turns that follow one
\* another carry the same typed message; the message of the run is there
\* once, as the last typed turn.
C39_CurrentMessageOnce ==
    \A i \in 1..(Len(request) - 1) :
        ~(/\ TypedTurn(request[i])
          /\ TypedTurn(request[i + 1])
          /\ request[i].content = request[i + 1].content)


\* C40: a step changes no message but the model message of the run that is
\* in progress; the message of a run that has ended, with its text or with
\* its error, stays as it is.
C40_ChunksStayInTheirRun ==
    [][\A i \in 1..Len(sessionMessages) :
          (sendRun.pc = "idle" \/ sessionMessages[i].id # sendRun.msgId)
              => sessionMessages'[i] = sessionMessages[i]]_vars

====
